---- MODULE Spec2Model ----
(***************************************************************************)
(* Credential resolution, provider registry and provider calls of ai-cli.  *)
(*                                                                         *)
(* Python strings that the code converts or inspects (lower(), upper(),    *)
(* strip(), slicing, join, substring tests) are sequences of one-character *)
(* strings.  Python's None is the value None below; a Python dict is a     *)
(* function whose DOMAIN is its key set.                                   *)
(***************************************************************************)
EXTENDS Integers, Sequences, FiniteSets, TLC

VARIABLES
    kr,         \* platform secret store: (service, username) -> secret or None
    krUp,       \* FALSE while the secret-store backend is unavailable
    env,        \* os.environ restricted to the variables the code reads
    file,       \* ~/.ai-cli.toml: NoFile or the parsed document
    providers,  \* ProviderFactory._providers, in insertion order
    regLog,     \* history: every registration made so far, oldest first
    input,      \* the arguments of a pending call of a pure function
    cache,      \* ConfigManager._config_cache of each long-lived manager
    last        \* the operation that ran last, its arguments and its outcome

vars == <<kr, krUp, env, file, providers, regLog, input, cache, last>>

(***************************************************************************)
(* Strings                                                                 *)
(***************************************************************************)
None == <<"<None>">>

EMPTY == <<>>

UpperChars ==
    <<"A", "B", "C", "D", "E", "F", "G", "H", "I", "J", "K", "L", "M",
      "N", "O", "P", "Q", "R", "S", "T", "U", "V", "W", "X", "Y", "Z">>

LowerChars ==
    <<"a", "b", "c", "d", "e", "f", "g", "h", "i", "j", "k", "l", "m",
      "n", "o", "p", "q", "r", "s", "t", "u", "v", "w", "x", "y", "z">>

IndexIn(c, table) ==
    IF \E i \in 1..Len(table) : table[i] = c
    THEN CHOOSE i \in 1..Len(table) : table[i] = c
    ELSE 0

\* str.lower(), one character
LowerChar(c) ==
    IF IndexIn(c, UpperChars) > 0 THEN LowerChars[IndexIn(c, UpperChars)] ELSE c

\* str.upper(), one character
UpperChar(c) ==
    IF IndexIn(c, LowerChars) > 0 THEN UpperChars[IndexIn(c, LowerChars)] ELSE c

\* str.lower()
Lower(s) == [i \in 1..Len(s) |-> LowerChar(s[i])]

\* str.upper()
Upper(s) == [i \in 1..Len(s) |-> UpperChar(s[i])]

\* bool(x) for x a string or None
Truthy(s) == s # None /\ Len(s) > 0

\* s[a:b] with 0 <= a, b <= len(s), Python's half-open slice
Slice(s, a, b) == IF b > a THEN SubSeq(s, a + 1, b) ELSE <<>>

\* needle in hay
Contains(hay, needle) ==
    \E i \in 0..(Len(hay) - Len(needle)) : Slice(hay, i, i + Len(needle)) = needle

RECURSIVE Join(_, _)
\* sep.join(parts)
Join(sep, parts) ==
    IF Len(parts) = 0 THEN <<>>
    ELSE IF Len(parts) = 1 THEN parts[1]
    ELSE parts[1] \o sep \o Join(sep, Tail(parts))

Range(f) == {f[x] : x \in DOMAIN f}

(***************************************************************************)
(* Outcomes of a call                                                      *)
(***************************************************************************)
Return(v) == [tag |-> "return", val |-> v]

\* an exception message: its fixed text (abridged) and the value formatted
\* into it
Msg(text, detail) == [text |-> text, detail |-> detail]

Raise(e, m) == [tag |-> "raise", exc |-> e, msg |-> m]

Returned(r) == r.tag = "return"

Raised(r, e) == r.tag = "raise" /\ r.exc = e

(***************************************************************************)
(* config.py                                                               *)
(***************************************************************************)
OPENAI == <<"o", "p", "e", "n", "a", "i">>

OLLAMA == <<"o", "l", "l", "a", "m", "a">>

OPENAI_API_KEY ==
    <<"O", "P", "E", "N", "A", "I", "_", "A", "P", "I", "_", "K", "E", "Y">>

DEFAULT_PROVIDER == OPENAI

PROVIDER_CONFIG ==
    (OPENAI :> [env_var |-> OPENAI_API_KEY,
                keyring_service |-> "ai-cli-openai",
                keyring_username |-> "api-key"])

KEYRING_SERVICE == "ai-cli"

KEYRING_USERNAME == "openai-api-key"

ENV_API_KEY == OPENAI_API_KEY

\* get_provider_config: the descriptor, or KeyError
get_provider_config(provider_name) ==
    IF provider_name \notin DOMAIN PROVIDER_CONFIG
    THEN Raise("KeyError", Msg("Provider not configured", provider_name))
    ELSE Return(PROVIDER_CONFIG[provider_name])

\* os.getenv
getenv(e, name) == IF name \in DOMAIN e THEN e[name] ELSE None

get_env_api_key(e) == getenv(e, ENV_API_KEY)

get_provider_env_api_key(e, provider_name) ==
    LET config == get_provider_config(provider_name)
    IN  IF Returned(config) THEN getenv(e, config.val.env_var) ELSE None

(***************************************************************************)
(* The keyring library                                                     *)
(***************************************************************************)
KrKeys ==
    { <<PROVIDER_CONFIG[p].keyring_service, PROVIDER_CONFIG[p].keyring_username>> :
          p \in DOMAIN PROVIDER_CONFIG }
    \cup { <<KEYRING_SERVICE, KEYRING_USERNAME>> }

\* keyring.get_password: every call fails while the backend is unavailable
keyring_get_password(k, up, service, username) ==
    IF ~up THEN Raise("KeyringError", Msg("Keyring unavailable", None))
    ELSE Return(k[<<service, username>>])

\* keyring.set_password: <<outcome, store afterwards>>
keyring_set_password(k, up, service, username, password) ==
    IF ~up THEN <<Raise("KeyringError", Msg("Keyring unavailable", None)), k>>
    ELSE <<Return(None), [k EXCEPT ![<<service, username>>] = password]>>

\* keyring.delete_password: deleting an absent entry is PasswordDeleteError
keyring_delete_password(k, up, service, username) ==
    IF ~up THEN <<Raise("KeyringError", Msg("Keyring unavailable", None)), k>>
    ELSE IF k[<<service, username>>] = None
    THEN <<Raise("PasswordDeleteError", Msg("Password not found", None)), k>>
    ELSE <<Return(None), [k EXCEPT ![<<service, username>>] = None]>>

(***************************************************************************)
(* api_key_manager.py                                                      *)
(***************************************************************************)
API_KEY_SUFFIX == <<"_", "A", "P", "I", "_", "K", "E", "Y">>

\* get_api_key with the try/except around the lookup left out
get_api_key_propagate(k, up, e) ==
    LET api_key == keyring_get_password(k, up, KEYRING_SERVICE, KEYRING_USERNAME)
    IN  IF ~Returned(api_key) THEN api_key
        ELSE IF Truthy(api_key.val) THEN Return(api_key.val)
        ELSE Return(get_env_api_key(e))

get_api_key(k, up, e) ==
    LET api_key == keyring_get_password(k, up, KEYRING_SERVICE, KEYRING_USERNAME)
    IN  IF Returned(api_key) /\ Truthy(api_key.val)
        THEN Return(api_key.val)
        ELSE Return(get_env_api_key(e))

store_api_key(k, up, api_key) ==
    LET r == keyring_set_password(k, up, KEYRING_SERVICE, KEYRING_USERNAME, api_key)
    IN  IF Returned(r[1]) THEN r ELSE <<Raise("APIKeyError", Msg("Keyring error", None)), k>>

remove_api_key(k, up) ==
    LET r == keyring_delete_password(k, up, KEYRING_SERVICE, KEYRING_USERNAME)
    IN  IF Returned(r[1]) \/ Raised(r[1], "PasswordDeleteError")
        THEN <<Return(None), r[2]>>
        ELSE <<Raise("APIKeyError", Msg("Keyring error", None)), k>>

\* get_provider_api_key consulting the environment before the secret store
get_provider_api_key_env_first(k, up, e, provider_name) ==
    LET config == get_provider_config(provider_name)
    IN  IF ~Returned(config)
        THEN IF Lower(provider_name) = OPENAI THEN get_api_key(k, up, e)
             ELSE Return(None)
        ELSE LET api_key == keyring_get_password(k, up, config.val.keyring_service,
                                                 config.val.keyring_username)
             IN  IF Truthy(get_provider_env_api_key(e, provider_name))
                 THEN Return(get_provider_env_api_key(e, provider_name))
                 ELSE IF Returned(api_key) THEN Return(api_key.val)
                 ELSE Return(None)

get_provider_api_key(k, up, e, provider_name) ==
    LET config == get_provider_config(provider_name)
    IN  IF ~Returned(config)
        THEN IF Lower(provider_name) = OPENAI THEN get_api_key(k, up, e)
             ELSE Return(None)
        ELSE LET api_key == keyring_get_password(k, up, config.val.keyring_service,
                                                 config.val.keyring_username)
             IN  IF Returned(api_key) /\ Truthy(api_key.val)
                 THEN Return(api_key.val)
                 ELSE Return(get_provider_env_api_key(e, provider_name))

store_provider_api_key(k, up, provider_name, api_key) ==
    LET config == get_provider_config(provider_name)
    IN  IF ~Returned(config)
        THEN IF Lower(provider_name) = OPENAI THEN store_api_key(k, up, api_key)
             ELSE <<Raise("APIKeyError", Msg("Keyring error", None)), k>>
        ELSE LET r == keyring_set_password(k, up, config.val.keyring_service,
                                           config.val.keyring_username, api_key)
             IN  IF Returned(r[1]) THEN r ELSE <<Raise("APIKeyError", Msg("Keyring error", None)), k>>

remove_provider_api_key(k, up, provider_name) ==
    LET config == get_provider_config(provider_name)
    IN  IF ~Returned(config)
        THEN IF Lower(provider_name) = OPENAI THEN remove_api_key(k, up)
             ELSE <<Raise("APIKeyError", Msg("Keyring error", None)), k>>
        ELSE LET r == keyring_delete_password(k, up, config.val.keyring_service,
                                              config.val.keyring_username)
             IN  IF Returned(r[1]) \/ Raised(r[1], "PasswordDeleteError")
                 THEN <<Return(None), r[2]>>
                 ELSE <<Raise("APIKeyError", Msg("Keyring error", None)), k>>

ensure_provider_api_key(k, up, e, provider_name) ==
    LET api_key == get_provider_api_key(k, up, e, provider_name)
        config  == get_provider_config(provider_name)
        env_var == IF Returned(config) THEN config.val.env_var
                   ELSE Upper(provider_name) \o API_KEY_SUFFIX
    IN  IF ~Returned(api_key) THEN api_key
        ELSE IF ~Truthy(api_key.val)
        THEN Raise("APIKeyNotFoundError", Msg("No API key configured", env_var))
        ELSE api_key

(***************************************************************************)
(* config_manager.py: the settings file                                    *)
(***************************************************************************)
EmptyDict == <<>>

DictTruthy(d) == DOMAIN d # {}

DictGet(d, key, default) == IF key \in DOMAIN d THEN d[key] ELSE default

DictSet(d, key, value) ==
    [x \in DOMAIN d \cup {key} |-> IF x = key THEN value ELSE d[x]]

DictDel(d, key) == [x \in DOMAIN d \ {key} |-> d[x]]

NoFile == [exists |-> FALSE, doc |-> EmptyDict]

\* load_config of a ConfigManager whose cache is still empty; a missing file
\* reads as {}
load_config(f) == IF f.exists THEN f.doc ELSE EmptyDict

\* toml.dumps of a document of tables: one header line per table and one
\* line per key whose value is not None (the library writes no line for None)
toml_dumps(config) ==
    {[kind |-> "table", table |-> t, key |-> "", value |-> EMPTY] : t \in DOMAIN config}
    \cup UNION {{[kind |-> "pair", table |-> t, key |-> key, value |-> config[t][key]] :
                     key \in {x \in DOMAIN config[t] : config[t][x] # None}} :
                 t \in DOMAIN config}

\* toml.loads: the tables named by the header lines, each with its own pairs
toml_loads(text) ==
    [t \in {l.table : l \in {x \in text : x.kind = "table"}} |->
        [key \in {l.key : l \in {x \in text : x.kind = "pair" /\ x.table = t}} |->
            (CHOOSE l \in text : l.kind = "pair" /\ l.table = t /\ l.key = key).value]]

\* save_config: <<outcome, file afterwards>>; the file holds what toml.load
\* reads from the text written; when the file cannot be opened for writing
\* it is left as it was and Exception is raised
save_config(f, config, writable) ==
    IF writable
    THEN <<Return(None), [exists |-> TRUE, doc |-> toml_loads(toml_dumps(config))]>>
    ELSE <<Raise("Exception", Msg("Could not save configuration", None)), f>>

\* ConfigManager.get_provider_config
cm_get_provider_config(f, provider) == DictGet(load_config(f), provider, EmptyDict)

\* ConfigManager.set_provider_config
cm_set_provider_config(f, provider, provider_config, writable) ==
    save_config(f, DictSet(load_config(f), provider, provider_config), writable)

\* ConfigManager.reset_config
reset_config(f) == NoFile

(***************************************************************************)
(* config_manager.py: a ConfigManager that lives across calls.  load_config *)
(* hands out the cached dict itself, so the setters change the cache in     *)
(* place before save_config runs.  Each operation gives the outcome, the    *)
(* file afterwards and the manager's cache afterwards.                      *)
(***************************************************************************)
NumManagers == 2

Managers == 1..NumManagers

\* _config_cache is None
NotLoaded == [loaded |-> FALSE, doc |-> EmptyDict]

NoCache == [m \in Managers |-> NotLoaded]

Loaded(doc) == [loaded |-> TRUE, doc |-> doc]

GENERAL == <<"g", "e", "n", "e", "r", "a", "l">>

\* ConfigManager.load_config: the cache, filled from the file on first use
cached_load_config(c, f) == IF c.loaded THEN c ELSE Loaded(load_config(f))

\* ConfigManager.save_config of the dict the setter has already changed in
\* place: on success the cache is a copy of it, on failure it still is it
cached_save_config(f, config, writable) ==
    LET r == save_config(f, config, writable)
    IN  [ret |-> r[1], file |-> r[2], cache |-> Loaded(config)]

\* ConfigManager.get_provider
get_provider(c, f) ==
    LET config == cached_load_config(c, f).doc
    IN  [ret |-> Return(DictGet(DictGet(config, GENERAL, EmptyDict), "provider", None)),
         file |-> f, cache |-> cached_load_config(c, f)]

\* ConfigManager.get_provider_config
get_provider_section(c, f, provider) ==
    [ret |-> Return(DictGet(cached_load_config(c, f).doc, provider, EmptyDict)),
     file |-> f, cache |-> cached_load_config(c, f)]

\* ConfigManager.set_provider
set_provider(c, f, provider, writable) ==
    LET config  == cached_load_config(c, f).doc
        general == DictGet(config, GENERAL, EmptyDict)
    IN  cached_save_config(f, DictSet(config, GENERAL, DictSet(general, "provider", provider)),
                           writable)

\* ConfigManager.set_provider_config
set_provider_config(c, f, provider, provider_config, writable) ==
    cached_save_config(f, DictSet(cached_load_config(c, f).doc, provider, provider_config),
                       writable)

\* ConfigManager.set_provider_setting
set_provider_setting(c, f, provider, setting, value, writable) ==
    LET config  == cached_load_config(c, f).doc
        section == DictGet(config, provider, EmptyDict)
    IN  cached_save_config(f, DictSet(config, provider, DictSet(section, setting, value)),
                           writable)

\* ConfigManager.remove_provider_config: nothing is written when the section
\* is absent
remove_provider_config(c, f, provider, writable) ==
    LET config == cached_load_config(c, f).doc
    IN  IF provider \in DOMAIN config
        THEN cached_save_config(f, DictDel(config, provider), writable)
        ELSE [ret |-> Return(None), file |-> f, cache |-> cached_load_config(c, f)]

(***************************************************************************)
(* commands.py: QueryCommand._get_provider_credentials                     *)
(***************************************************************************)
URL1 == <<"h", "t", "t", "p">>

MODEL1 == <<"l", "l", "a", "m", "a", "2">>

CFG1 == [url |-> URL1, model |-> MODEL1]

JSON_CFG1 ==
    <<"{", "\"", "u", "r", "l", "\"", ":", "\"", "h", "t", "t", "p", "\"", ",",
      "\"", "m", "o", "d", "e", "l", "\"", ":", "\"", "l", "l", "a", "m", "a", "2",
      "\"", "}">>

JSON_EMPTY_OBJECT == <<"{", "}">>

\* json.loads on the texts the model puts in the environment
json_loads(s) ==
    IF s = JSON_CFG1 THEN Return(CFG1)
    ELSE IF s = JSON_EMPTY_OBJECT THEN Return(EmptyDict)
    ELSE Raise("JSONDecodeError", Msg("Expecting value", None))

get_provider_credentials(k, up, e, f, provider) ==
    IF Lower(provider) = OPENAI
    THEN ensure_provider_api_key(k, up, e, provider)
    ELSE IF Lower(provider) = OLLAMA
    THEN LET config == get_provider_config(provider)
         IN  IF ~Returned(config) THEN config
             ELSE LET file_config == cm_get_provider_config(f, OLLAMA)
                      env_config  == get_provider_env_api_key(e, provider)
                  IN  IF DictTruthy(file_config) THEN Return(file_config)
                      ELSE IF Truthy(env_config)
                      THEN IF Returned(json_loads(env_config))
                           THEN json_loads(env_config)
                           ELSE Raise("APIKeyNotFoundError",
                                      Msg("Invalid configuration format", None))
                      ELSE Raise("APIKeyNotFoundError",
                                 Msg("No configuration found", config.val.env_var))
    ELSE ensure_provider_api_key(k, up, e, provider)

(***************************************************************************)
(* providers/factory.py: the registry, a dict in insertion order, kept as  *)
(* a sequence of <<name, class>> pairs                                     *)
(***************************************************************************)
InitialProviders ==
    << <<OPENAI, "OpenAIProvider">>, <<OLLAMA, "OllamaProvider">> >>

\* list(cls._providers.keys())
get_available_providers(P) == [i \in 1..Len(P) |-> P[i][1]]

\* name in cls._providers
Registered(P, name) == \E i \in 1..Len(P) : P[i][1] = name

\* cls._providers[name]
ClassOf(P, name) == P[CHOOSE i \in 1..Len(P) : P[i][1] = name][2]

UNSUPPORTED_PREFIX ==
    <<"U", "n", "s", "u", "p", "p", "o", "r", "t", "e", "d", " ",
      "p", "r", "o", "v", "i", "d", "e", "r", " ", "'">>

UNSUPPORTED_MIDDLE ==
    <<"'", ".", " ", "A", "v", "a", "i", "l", "a", "b", "l", "e", " ",
      "p", "r", "o", "v", "i", "d", "e", "r", "s", ":", " ">>

COMMA_SPACE == <<",", " ">>

\* the message naming only the first registered provider
UnsupportedMessage_first_only(P, provider_name) ==
    UNSUPPORTED_PREFIX \o provider_name \o UNSUPPORTED_MIDDLE
        \o Join(COMMA_SPACE, SubSeq(get_available_providers(P), 1, 1))

\* the text of UnsupportedProviderError
UnsupportedMessage(P, provider_name) ==
    UNSUPPORTED_PREFIX \o provider_name \o UNSUPPORTED_MIDDLE
        \o Join(COMMA_SPACE, get_available_providers(P))

\* credentials as Python values: a str or a dict
Str(v) == [type |-> "str", str |-> v, dict |-> <<>>]

Dict(v) == [type |-> "dict", str |-> <<>>, dict |-> v]

\* provider_class(credentials): OllamaProvider.__init__ calls config.get,
\* which a str does not have; the other constructors keep what they are given
Construct(class, credentials) ==
    IF class = "OllamaProvider" /\ credentials.type # "dict"
    THEN Raise("AttributeError", Msg("'str' object has no attribute 'get'", None))
    ELSE Return([class |-> class, credentials |-> credentials])

create_provider(P, provider_name, credentials) ==
    LET name == Lower(provider_name)
    IN  IF ~Registered(P, name)
        THEN Raise("UnsupportedProviderError",
                   Msg("Unsupported provider", UnsupportedMessage(P, name)))
        ELSE Construct(ClassOf(P, name), credentials)

\* get_provider_class comparing the name as given
get_provider_class_case_sensitive(P, provider_name) ==
    IF ~Registered(P, provider_name)
    THEN Raise("UnsupportedProviderError",
               Msg("Unsupported provider", UnsupportedMessage(P, provider_name)))
    ELSE Return(ClassOf(P, provider_name))

get_provider_class(P, provider_name) ==
    LET name == Lower(provider_name)
    IN  IF ~Registered(P, name)
        THEN Raise("UnsupportedProviderError",
                   Msg("Unsupported provider", UnsupportedMessage(P, name)))
        ELSE Return(ClassOf(P, name))

\* register_provider keeping the class of a name that is already registered
register_provider_first_wins(P, name, provider_class) ==
    IF Registered(P, Lower(name)) THEN P
    ELSE Append(P, <<Lower(name), provider_class>>)

\* cls._providers[name.lower()] = provider_class: an existing key keeps its
\* position and gets the new class, a new key goes last
register_provider(P, name, provider_class) ==
    IF Registered(P, Lower(name))
    THEN [i \in 1..Len(P) |->
             IF P[i][1] = Lower(name) THEN <<P[i][1], provider_class>> ELSE P[i]]
    ELSE Append(P, <<Lower(name), provider_class>>)

(***************************************************************************)
(* Inputs                                                                  *)
(***************************************************************************)
NumSecrets == 1

Digits == <<"1", "2", "3", "4", "5", "6", "7", "8", "9">>

\* the secrets the user stores in the secret store
StoreKey(i) == <<"s", "k", "-", "k", Digits[i]>>

\* the secrets the user exports in the environment
EnvKey(i) == <<"s", "k", "-", "e", Digits[i]>>

StoreVals == {EMPTY} \cup {StoreKey(i) : i \in 1..NumSecrets}

EnvVals == {EMPTY, JSON_CFG1} \cup {EnvKey(i) : i \in 1..NumSecrets}

OPENAI_MIXED == <<"O", "p", "e", "n", "A", "I">>

OLLAMA_MIXED == <<"O", "l", "l", "a", "m", "a">>

TEST == <<"t", "e", "s", "t">>

TEST_MIXED == <<"T", "e", "s", "t">>

Names == {OPENAI, OPENAI_MIXED, OLLAMA, TEST}

\* the environment variable a provider's credentials are read from: the
\* descriptor's, or the name ensure_provider_api_key derives without one
EnvVarOf(provider_name) ==
    IF provider_name \in DOMAIN PROVIDER_CONFIG
    THEN PROVIDER_CONFIG[provider_name].env_var
    ELSE Upper(provider_name) \o API_KEY_SUFFIX

EnvVars == {EnvVarOf(OPENAI), EnvVarOf(OLLAMA)}

SectionVals == {EmptyDict, CFG1}

(***************************************************************************)
(* State machine                                                           *)
(***************************************************************************)
Op(op, name, ret) == [op |-> op, name |-> name, ret |-> ret]

\* a pending call: the function, its string argument, the provider class it
\* is called on and the kind of answer the backend will give
Input(fn, text, class, kind) == [fn |-> fn, text |-> text, class |-> class, kind |-> kind]

NoInput == Input("none", EMPTY, "none", "none")

Init ==
    /\ kr = [key \in KrKeys |-> None]
    /\ krUp = TRUE
    /\ env = [v \in EnvVars |-> None]
    /\ file = NoFile
    /\ providers = InitialProviders
    /\ regLog = InitialProviders
    /\ input = NoInput
    /\ cache = NoCache
    /\ last = Op("init", None, Return(None))

\* the user exports or unsets an environment variable between invocations
SetEnv ==
    \E v \in EnvVars, val \in EnvVals \cup {None} :
        /\ env' = [env EXCEPT ![v] = val]
        /\ last' = Op("setenv", v, Return(val))
        /\ UNCHANGED <<kr, krUp, file, providers, regLog, input, cache>>

\* the secret-store backend becomes unavailable or available again
KeyringBackend ==
    /\ krUp' = ~krUp
    /\ last' = Op("keyring_backend", None, Return(None))
    /\ UNCHANGED <<kr, env, file, providers, regLog, input, cache>>

StoreApiKey ==
    \E api_key \in StoreVals :
        LET r == store_api_key(kr, krUp, api_key)
        IN  /\ kr' = r[2]
            /\ last' = Op("store_api_key", None, r[1])
            /\ UNCHANGED <<krUp, env, file, providers, regLog, input, cache>>

RemoveApiKey ==
    LET r == remove_api_key(kr, krUp)
    IN  /\ kr' = r[2]
        /\ last' = Op("remove_api_key", None, r[1])
        /\ UNCHANGED <<krUp, env, file, providers, regLog, input, cache>>

StoreProviderApiKey ==
    \E provider_name \in Names, api_key \in StoreVals :
        LET r == store_provider_api_key(kr, krUp, provider_name, api_key)
        IN  /\ kr' = r[2]
            /\ last' = Op("store_provider_api_key", provider_name, r[1])
            /\ UNCHANGED <<krUp, env, file, providers, regLog, input, cache>>

RemoveProviderApiKey ==
    \E provider_name \in Names :
        LET r == remove_provider_api_key(kr, krUp, provider_name)
        IN  /\ kr' = r[2]
            /\ last' = Op("remove_provider_api_key", provider_name, r[1])
            /\ UNCHANGED <<krUp, env, file, providers, regLog, input, cache>>

GetApiKey ==
    /\ last' = Op("get_api_key", None, get_api_key(kr, krUp, env))
    /\ UNCHANGED <<kr, krUp, env, file, providers, regLog, input, cache>>

GetProviderApiKey ==
    \E provider_name \in Names :
        /\ last' = Op("get_provider_api_key", provider_name,
                      get_provider_api_key(kr, krUp, env, provider_name))
        /\ UNCHANGED <<kr, krUp, env, file, providers, regLog, input, cache>>

EnsureProviderApiKey ==
    \E provider_name \in Names :
        /\ last' = Op("ensure_provider_api_key", provider_name,
                      ensure_provider_api_key(kr, krUp, env, provider_name))
        /\ UNCHANGED <<kr, krUp, env, file, providers, regLog, input, cache>>

GetProviderCredentials ==
    \E provider \in Names :
        /\ last' = Op("_get_provider_credentials", provider,
                      get_provider_credentials(kr, krUp, env, file, provider))
        /\ UNCHANGED <<kr, krUp, env, file, providers, regLog, input, cache>>

\* ConfigManager.set_provider_config("ollama", ...) of a fresh ConfigManager
SetProviderConfig ==
    \E provider_config \in SectionVals, writable \in BOOLEAN :
        LET r == cm_set_provider_config(file, OLLAMA, provider_config, writable)
        IN  /\ file' = r[2]
            /\ last' = Op("set_provider_config", OLLAMA, r[1])
            /\ UNCHANGED <<kr, krUp, env, providers, regLog, input, cache>>

ResetConfig ==
    /\ file' = reset_config(file)
    /\ last' = Op("reset_config", None, Return(None))
    /\ UNCHANGED <<kr, krUp, env, providers, regLog, input, cache>>

Next ==
    \/ SetEnv
    \/ KeyringBackend
    \/ StoreApiKey
    \/ RemoveApiKey
    \/ StoreProviderApiKey
    \/ RemoveProviderApiKey
    \/ GetApiKey
    \/ GetProviderApiKey
    \/ EnsureProviderApiKey
    \/ GetProviderCredentials
    \/ SetProviderConfig
    \/ ResetConfig

Spec == Init /\ [][Next]_vars

(***************************************************************************)
(* The registry on its own                                                 *)
(***************************************************************************)
MaxRegs == 2

UNKNOWN == <<"g", "p", "t">>

RegisterNames == {OPENAI_MIXED, TEST, TEST_MIXED}

RegisterClasses == {"OllamaProvider", "TestProvider"}

LookupNames == {OPENAI, OPENAI_MIXED, OLLAMA_MIXED, TEST, TEST_MIXED, UNKNOWN}

CredentialInputs == {Str(StoreKey(1)), Dict(CFG1)}

RegOp(op, name, credentials, ret) ==
    [op |-> op, name |-> name, credentials |-> credentials, ret |-> ret]

RegisterProvider ==
    \E name \in RegisterNames, provider_class \in RegisterClasses :
        /\ Len(regLog) < Len(InitialProviders) + MaxRegs
        /\ providers' = register_provider(providers, name, provider_class)
        /\ regLog' = Append(regLog, <<name, provider_class>>)
        /\ last' = RegOp("register_provider", name, Str(EMPTY), Return(None))
        /\ UNCHANGED <<kr, krUp, env, file, input, cache>>

GetProviderClass ==
    \E provider_name \in LookupNames :
        /\ last' = RegOp("get_provider_class", provider_name, Str(EMPTY),
                         get_provider_class(providers, provider_name))
        /\ UNCHANGED <<kr, krUp, env, file, providers, regLog, input, cache>>

CreateProvider ==
    \E provider_name \in LookupNames, credentials \in CredentialInputs :
        /\ last' = RegOp("create_provider", provider_name, credentials,
                         create_provider(providers, provider_name, credentials))
        /\ UNCHANGED <<kr, krUp, env, file, providers, regLog, input, cache>>

GetAvailableProviders ==
    /\ last' = RegOp("get_available_providers", None, Str(EMPTY),
                     Return(get_available_providers(providers)))
    /\ UNCHANGED <<kr, krUp, env, file, providers, regLog, input, cache>>

NextRegistry ==
    \/ RegisterProvider
    \/ GetProviderClass
    \/ CreateProvider
    \/ GetAvailableProviders

SpecRegistry == Init /\ [][NextRegistry]_vars

(***************************************************************************)
(* Credential resolution                                                   *)
(***************************************************************************)
\* what the secret store holds under the openai descriptor's namespace
OpenAIStored ==
    kr[<<PROVIDER_CONFIG[OPENAI].keyring_service, PROVIDER_CONFIG[OPENAI].keyring_username>>]

\* the value of the openai descriptor's environment variable
OpenAIEnv == env[PROVIDER_CONFIG[OPENAI].env_var]

\* the [ollama] section of the settings file, {} without one
OllamaSection ==
    IF file.exists /\ OLLAMA \in DOMAIN file.doc THEN file.doc[OLLAMA] ELSE EmptyDict

\* the value of the environment variable of the ollama provider
OllamaEnv == env[EnvVarOf(OLLAMA)]

\* C1: for "openai", with the secret store answering, get_provider_api_key
\* returns the stored secret when it is non-empty and the environment value
\* otherwise, and ensure_provider_api_key raises APIKeyNotFoundError exactly
\* when both are absent or empty (and returns that same value when not).
C1_StoreBeforeEnvironment ==
    /\ (last.op = "get_provider_api_key" /\ last.name = OPENAI /\ krUp) =>
           last.ret = Return(IF Truthy(OpenAIStored) THEN OpenAIStored ELSE OpenAIEnv)
    /\ (last.op = "ensure_provider_api_key" /\ last.name = OPENAI /\ krUp) =>
           /\ Raised(last.ret, "APIKeyNotFoundError")
                  <=> (~Truthy(OpenAIStored) /\ ~Truthy(OpenAIEnv))
           /\ Returned(last.ret) =>
                  last.ret.val = IF Truthy(OpenAIStored) THEN OpenAIStored ELSE OpenAIEnv

\* both sources hold a value and the resolver answered with the stored one
C1_Witness ==
    /\ last.op = "ensure_provider_api_key" /\ last.name = OPENAI /\ krUp
    /\ Truthy(OpenAIStored) /\ Truthy(OpenAIEnv) /\ OpenAIStored # OpenAIEnv
    /\ last.ret = Return(OpenAIStored)

\* the secret store with every entry absent
EmptyStore == [key \in KrKeys |-> None]

\* C2: while the secret-store lookup raises, get_api_key and
\* get_provider_api_key return normally, with the result they give when the
\* store is reachable and empty: the environment value, or None.
C2_StoreFailureFallsBack ==
    /\ (last.op = "get_api_key" /\ ~krUp) =>
           /\ last.ret = Return(env[ENV_API_KEY])
           /\ last.ret = get_api_key(EmptyStore, TRUE, env)
    /\ (last.op = "get_provider_api_key" /\ ~krUp) =>
           /\ Returned(last.ret)
           /\ last.ret.val \in {None} \cup Range(env)
           /\ last.ret = get_provider_api_key(EmptyStore, TRUE, env, last.name)
           /\ last.name = OPENAI => last.ret.val = OpenAIEnv

\* the store holds a secret, the lookup fails, the environment value is returned
C2_Witness ==
    /\ last.op = "get_provider_api_key" /\ last.name = OPENAI /\ ~krUp
    /\ Truthy(OpenAIStored) /\ Truthy(OpenAIEnv)
    /\ last.ret = Return(OpenAIEnv)

\* C3: for "ollama", _get_provider_credentials returns the [ollama] section
\* of the settings file when it is non-empty, otherwise the parsed value of
\* the provider's environment variable, and raises credentials-not-found
\* only when both are absent.
C3_OllamaSectionThenEnvironment ==
    (last.op = "_get_provider_credentials" /\ last.name = OLLAMA) =>
        /\ DictTruthy(OllamaSection) => last.ret = Return(OllamaSection)
        /\ (~DictTruthy(OllamaSection) /\ Truthy(OllamaEnv)
                /\ Returned(json_loads(OllamaEnv))) =>
               last.ret = json_loads(OllamaEnv)
        /\ (Raised(last.ret, "APIKeyNotFoundError")
                /\ last.ret.msg.text = "No configuration found") =>
               (~DictTruthy(OllamaSection) /\ ~Truthy(OllamaEnv))

\* C4: when resolution for "ollama" gets to an environment value that does
\* not parse, it raises an invalid-configuration-format error whose kind is
\* not the credentials-not-found kind, and returns nothing.
C4_UnparsableEnvironmentIsItsOwnKind ==
    (last.op = "_get_provider_credentials" /\ Lower(last.name) = OLLAMA
         /\ ~DictTruthy(OllamaSection) /\ Truthy(OllamaEnv)
         /\ ~Returned(json_loads(OllamaEnv))) =>
        /\ last.ret.tag = "raise"
        /\ last.ret.msg.text = "Invalid configuration format"
        /\ last.ret.exc # "APIKeyNotFoundError"

(***************************************************************************)
(* api_key_manager.py: get_masked_key                                      *)
(***************************************************************************)
ELLIPSIS == <<".", ".", ".">>

MASK == <<"*", "*", "*">>

\* get_masked_key showing the key whenever it is longer than the shown part
get_masked_key_short_threshold(api_key) ==
    IF Len(api_key) > 8
    THEN Slice(api_key, 0, 8) \o ELLIPSIS
             \o Slice(api_key, IF Len(api_key) > 4 THEN Len(api_key) - 4 ELSE 0,
                      Len(api_key))
    ELSE MASK

get_masked_key(api_key) ==
    IF Len(api_key) > 12
    THEN Slice(api_key, 0, 8) \o ELLIPSIS \o Slice(api_key, Len(api_key) - 4, Len(api_key))
    ELSE MASK

MaxKeyLen == 13

KeyChars == {"s", "k"}

KeyInputs == UNION {[1..n -> KeyChars] : n \in 0..MaxKeyLen}

InitMask ==
    /\ kr = [key \in KrKeys |-> None]
    /\ krUp = TRUE
    /\ env = [v \in EnvVars |-> None]
    /\ file = NoFile
    /\ providers = InitialProviders
    /\ regLog = InitialProviders
    /\ \E api_key \in KeyInputs : input = Input("get_masked_key", api_key, "none", "none")
    /\ cache = NoCache
    /\ last = Op("init", None, Return(None))

GetMaskedKey ==
    /\ input.fn = "get_masked_key"
    /\ last.op = "init"
    /\ last' = Op("get_masked_key", input.text, Return(get_masked_key(input.text)))
    /\ UNCHANGED <<kr, krUp, env, file, providers, regLog, input, cache>>

NextMask == GetMaskedKey

SpecMask == InitMask /\ [][NextMask]_vars

(***************************************************************************)
(* providers/openai_provider.py, providers/ollama_provider.py:             *)
(* generate_command                                                        *)
(***************************************************************************)
\* the characters str.strip() removes, among those the backend sends here
Whitespace == {" ", "\t", "\n", "\r"}

RECURSIVE LStrip(_)
LStrip(s) ==
    IF Len(s) > 0 /\ s[1] \in Whitespace THEN LStrip(Tail(s)) ELSE s

RECURSIVE RStrip(_)
RStrip(s) ==
    IF Len(s) > 0 /\ s[Len(s)] \in Whitespace THEN RStrip(SubSeq(s, 1, Len(s) - 1)) ELSE s

\* str.strip()
Strip(s) == RStrip(LStrip(s))

\* what client.responses.parse can do: raise, answer without a parsed
\* output, answer with a command_line
OpenAIBackendKinds == {"error", "no_output", "command"}

\* generate_command returning whatever is left after strip()
openai_generate_command_no_empty_check(kind, command_line) ==
    IF kind = "error"
    THEN Raise("OpenAIAPIError", Msg("Error calling OpenAI API", None))
    ELSE IF kind = "no_output"
    THEN Raise("OpenAIAPIError", Msg("Error calling OpenAI API", None))
    ELSE Return(Strip(command_line))

\* OpenAIProvider.generate_command: every exception inside the try block,
\* the empty-command OpenAIAPIError included, leaves as OpenAIAPIError
openai_generate_command(kind, command_line) ==
    IF kind = "error"
    THEN Raise("OpenAIAPIError", Msg("Error calling OpenAI API", None))
    ELSE IF kind = "no_output"
    THEN Raise("OpenAIAPIError", Msg("Error calling OpenAI API", None))
    ELSE IF Strip(command_line) = <<>>
    THEN Raise("OpenAIAPIError",
               Msg("Error calling OpenAI API", "Empty command returned from API"))
    ELSE Return(Strip(command_line))

\* what the POST to the Ollama URL can do: the requests import failed, the
\* connection failed, it timed out, a status other than 200, a body that is
\* not JSON, JSON without "response", a "response" that is not a string, a
\* "response" string
OllamaBackendKinds ==
    {"no_requests", "connection_error", "timeout", "status", "not_json",
     "no_response_field", "response_not_str", "command"}

\* OllamaProvider.generate_command
ollama_generate_command(kind, response) ==
    IF kind = "no_requests"
    THEN Raise("OllamaAPIError", Msg("requests library is required", None))
    ELSE IF kind = "connection_error"
    THEN Raise("OllamaAPIError", Msg("Could not connect to Ollama", None))
    ELSE IF kind = "timeout"
    THEN Raise("OllamaAPIError", Msg("Request to Ollama timed out", None))
    ELSE IF kind = "status"
    THEN Raise("OllamaAPIError", Msg("Ollama API returned status", None))
    ELSE IF kind \in {"not_json", "response_not_str"}
    THEN Raise("OllamaAPIError", Msg("Error calling Ollama API", None))
    ELSE IF Strip(IF kind = "no_response_field" THEN EMPTY ELSE response) = <<>>
    THEN Raise("OllamaAPIError", Msg("Empty command returned from Ollama API", None))
    ELSE Return(Strip(response))

\* generate_command of an instance of the class
generate_command(class, kind, text) ==
    IF class = "OpenAIProvider" THEN openai_generate_command(kind, text)
    ELSE ollama_generate_command(kind, text)

\* the error type the class's generate_command documents
ApiErrorOf(class) ==
    IF class = "OpenAIProvider" THEN "OpenAIAPIError" ELSE "OllamaAPIError"

MaxCmdLen == 3

CmdChars == {" ", "\n", "l", "s"}

CommandTexts == UNION {[1..n -> CmdChars] : n \in 0..MaxCmdLen}

GenerateInputs ==
    {Input("generate_command", text, "OpenAIProvider", "command") : text \in CommandTexts}
    \cup {Input("generate_command", text, "OllamaProvider", "command") : text \in CommandTexts}
    \cup {Input("generate_command", EMPTY, "OpenAIProvider", kind) :
              kind \in OpenAIBackendKinds \ {"command"}}
    \cup {Input("generate_command", EMPTY, "OllamaProvider", kind) :
              kind \in OllamaBackendKinds \ {"command"}}

InitGenerate ==
    /\ kr = [key \in KrKeys |-> None]
    /\ krUp = TRUE
    /\ env = [v \in EnvVars |-> None]
    /\ file = NoFile
    /\ providers = InitialProviders
    /\ regLog = InitialProviders
    /\ input \in GenerateInputs
    /\ cache = NoCache
    /\ last = Op("init", None, Return(None))

GenerateCommand ==
    /\ input.fn = "generate_command"
    /\ last.op = "init"
    /\ last' = Op("generate_command", input.text,
                  generate_command(input.class, input.kind, input.text))
    /\ UNCHANGED <<kr, krUp, env, file, providers, regLog, input, cache>>

NextGenerate == GenerateCommand

SpecGenerate == InitGenerate /\ [][NextGenerate]_vars

(***************************************************************************)
(* The registry                                                            *)
(***************************************************************************)
\* C5: every built-in identity in the registry has a descriptor:
\* get_provider_config succeeds for each name get_available_providers lists.
C5_EveryIdentityHasDescriptor ==
    \A i \in 1..Len(get_available_providers(providers)) :
        get_available_providers(providers)[i] \in {OPENAI, OLLAMA} =>
            Returned(get_provider_config(get_available_providers(providers)[i]))

\* C6: a lookup under any letter case gives what the lookup under the
\* lowercase name gives: the class registered under the lowercase name, or
\* an instance of it.
C6_LookupIgnoresCase ==
    /\ last.op = "get_provider_class" =>
           /\ last.ret = get_provider_class(providers, Lower(last.name))
           /\ Registered(providers, Lower(last.name)) =>
                  last.ret = Return(ClassOf(providers, Lower(last.name)))
    /\ last.op = "create_provider" =>
           /\ last.ret = create_provider(providers, Lower(last.name), last.credentials)
           /\ (Registered(providers, Lower(last.name)) /\ Returned(last.ret)) =>
                  last.ret.val.class = ClassOf(providers, Lower(last.name))

\* a mixed-case name got the class registered under the lowercase name
C6_Witness ==
    /\ last.op = "get_provider_class" /\ last.name = OPENAI_MIXED
    /\ last.name # Lower(last.name)
    /\ last.ret = Return(ClassOf(providers, OPENAI))

\* the lowercase names registered so far, oldest first
LoweredLog == [i \in 1..Len(regLog) |-> Lower(regLog[i][1])]

\* C7: a lookup of a name that is not registered raises
\* UnsupportedProviderError, and the message contains every identity
\* registered so far.
C7_UnknownNameIsUnsupported ==
    (last.op \in {"get_provider_class", "create_provider"}
         /\ Lower(last.name) \notin Range(LoweredLog)) =>
        /\ Raised(last.ret, "UnsupportedProviderError")
        /\ \A i \in 1..Len(LoweredLog) : Contains(last.ret.msg.detail, LoweredLog[i])

\* an unknown name was looked up after "test" had been registered
C7_Witness ==
    /\ last.op = "create_provider" /\ last.name = UNKNOWN
    /\ TEST \in Range(LoweredLog)
    /\ Raised(last.ret, "UnsupportedProviderError")
    /\ Contains(last.ret.msg.detail, TEST)

RECURSIVE FirstOccurrences(_)
\* s without the later repetitions of its elements
FirstOccurrences(s) ==
    IF Len(s) = 0 THEN <<>>
    ELSE LET d == FirstOccurrences(SubSeq(s, 1, Len(s) - 1))
         IN  IF s[Len(s)] \in Range(d) THEN d ELSE Append(d, s[Len(s)])

\* the class given in the most recent registration of the lowercase name n
LatestClass(n) ==
    regLog[CHOOSE i \in 1..Len(regLog) :
               /\ LoweredLog[i] = n
               /\ \A j \in (i + 1)..Len(regLog) : LoweredLog[j] # n][2]

\* C8: after any registrations, a lookup of a registered name (in any letter
\* case) gives the class of the most recent registration of that name,
\* create_provider gives an instance of it for credentials its constructor
\* takes, registering never fails, and get_available_providers lists each
\* name once, in the order of first registration.
C8_LastRegistrationWins ==
    /\ get_available_providers(providers) = FirstOccurrences(LoweredLog)
    /\ last.op = "register_provider" => Returned(last.ret)
    /\ \A n \in LookupNames :
           Lower(n) \in Range(LoweredLog) =>
               /\ get_provider_class(providers, n) = Return(LatestClass(Lower(n)))
               /\ \A c \in CredentialInputs :
                      Returned(Construct(LatestClass(Lower(n)), c)) =>
                          create_provider(providers, n, c)
                              = Return([class |-> LatestClass(Lower(n)), credentials |-> c])
    /\ (last.op = "get_provider_class" /\ Lower(last.name) \in Range(LoweredLog)) =>
           last.ret = Return(LatestClass(Lower(last.name)))
    /\ (last.op = "get_available_providers") =>
           last.ret = Return(FirstOccurrences(LoweredLog))

\* a name was registered twice with different classes and then looked up
C8_Witness ==
    /\ last.op = "get_provider_class"
    /\ \E i, j \in 1..Len(regLog) :
           /\ i < j
           /\ LoweredLog[i] = LoweredLog[j]
           /\ regLog[i][2] # regLog[j][2]
           /\ Lower(last.name) = LoweredLog[j]
           /\ \A m \in (j + 1)..Len(regLog) : LoweredLog[m] # LoweredLog[j]
           /\ last.ret = Return(regLog[j][2])

(***************************************************************************)
(* Masking and command generation                                          *)
(***************************************************************************)
\* C9: the mask of a secret longer than 12 characters is its first 8
\* characters, three dots and its last 4 characters; the mask of any other
\* secret is "***".
C9_MaskShape ==
    last.op = "get_masked_key" =>
        LET key == last.name
            masked == last.ret.val
        IN  /\ Returned(last.ret)
            /\ Len(key) > 12 =>
                   /\ Len(masked) = 15
                   /\ \A i \in 1..8 : masked[i] = key[i]
                   /\ \A i \in 9..11 : masked[i] = "."
                   /\ \A i \in 1..4 : masked[11 + i] = key[Len(key) - 4 + i]
            /\ Len(key) <= 12 => masked = <<"*", "*", "*">>

\* a 13-character secret whose ninth character differs from its tenth was masked
C9_Witness ==
    /\ last.op = "get_masked_key"
    /\ Len(last.name) = 13
    /\ last.name[9] # last.name[10]
    /\ Len(last.ret.val) = 15

\* r is t with the whitespace at both ends removed
IsStripped(r, t) ==
    /\ Len(r) > 0 => (r[1] \notin Whitespace /\ r[Len(r)] \notin Whitespace)
    /\ \E a \in 0..Len(t) :
           /\ a + Len(r) <= Len(t)
           /\ \A i \in 1..a : t[i] \in Whitespace
           /\ \A i \in 1..Len(r) : t[a + i] = r[i]
           /\ \A i \in (a + Len(r) + 1)..Len(t) : t[i] \in Whitespace

\* C10: generate_command of either provider raises the provider's API error
\* or returns a non-empty string, the backend's command with the whitespace
\* at both ends removed; a command that is empty or only whitespace raises.
C10_NeverAnEmptyCommand ==
    last.op = "generate_command" =>
        /\ \/ Raised(last.ret, ApiErrorOf(input.class))
           \/ /\ Returned(last.ret)
              /\ input.kind = "command"
              /\ Len(last.ret.val) > 0
              /\ IsStripped(last.ret.val, input.text)
        /\ (input.kind = "command" /\ \A i \in 1..Len(input.text) : input.text[i] \in Whitespace)
               => Raised(last.ret, ApiErrorOf(input.class))
        /\ (input.kind = "command" /\ \E i \in 1..Len(input.text) : input.text[i] \notin Whitespace)
               => Returned(last.ret)

\* a command with whitespace in front was returned without it
C10_Witness ==
    /\ last.op = "generate_command"
    /\ input.kind = "command"
    /\ Len(input.text) = 3
    /\ input.text[1] \in Whitespace
    /\ Returned(last.ret)
    /\ Len(last.ret.val) = 2

\* a whitespace-only command made generate_command raise
C10_WitnessBlank ==
    /\ last.op = "generate_command"
    /\ input.kind = "command"
    /\ Len(input.text) = 2
    /\ \A i \in 1..2 : input.text[i] \in Whitespace
    /\ Raised(last.ret, ApiErrorOf(input.class))

(***************************************************************************)
(* providers/openai_provider.py: validate_credentials                      *)
(***************************************************************************)
AUTHENTICATION == <<"a", "u", "t", "h", "e", "n", "t", "i", "c", "a", "t", "i", "o", "n">>

UNAUTHORIZED == <<"u", "n", "a", "u", "t", "h", "o", "r", "i", "z", "e", "d">>

\* str() of the APIKeyInvalidError raised inside the try for a falsy listing
VALIDATION_FAILED ==
    <<"A", "P", "I", " ", "k", "e", "y", " ", "v", "a", "l", "i", "d", "a", "t", "i", "o", "n", " ", "f", "a", "i", "l", "e", "d">>

\* what client.models.list() does: "models" a non-empty listing, "empty" a
\* falsy one, "error" an exception whose str() is the message
OpenAIListingKinds == {"models", "empty", "error"}

\* validate_credentials matching the hints without lowering the message
openai_validate_credentials_case_sensitive(kind, message) ==
    LET e == IF kind = "error" THEN message ELSE VALIDATION_FAILED
    IN  IF kind = "models" THEN Return(None)
        ELSE IF Contains(e, AUTHENTICATION) \/ Contains(e, UNAUTHORIZED)
        THEN Raise("APIKeyInvalidError", Msg("Invalid API key", e))
        ELSE Raise("OpenAIAPIError", Msg("API validation error", e))

\* the raise for a falsy listing sits inside the try, so the except clause
\* classifies it by its own message like any other failure
openai_validate_credentials(kind, message) ==
    LET e == IF kind = "error" THEN message ELSE VALIDATION_FAILED
    IN  IF kind = "models" THEN Return(None)
        ELSE IF Contains(Lower(e), AUTHENTICATION) \/ Contains(Lower(e), UNAUTHORIZED)
        THEN Raise("APIKeyInvalidError", Msg("Invalid API key", e))
        ELSE Raise("OpenAIAPIError", Msg("API validation error", e))

(***************************************************************************)
(* providers/ollama_provider.py: validate_credentials                      *)
(***************************************************************************)
RESPONSE == <<"r", "e", "s", "p", "o", "n", "s", "e">>

MODEL == <<"m", "o", "d", "e", "l">>

BODY_RESPONSE == <<"{", "\"", "r", "e", "s", "p", "o", "n", "s", "e", "\"", ":", "\"", "o", "k", "\"", "}">>

BODY_ERROR == <<"{", "\"", "e", "r", "r", "o", "r", "\"", ":", "\"", "x", "\"", "}">>

BODY_STRING_RESPONSE == <<"\"", "n", "o", " ", "r", "e", "s", "p", "o", "n", "s", "e", "\"">>

BODY_STRING_OK == <<"\"", "o", "k", "\"">>

BODY_ARRAY_RESPONSE == <<"[", "\"", "r", "e", "s", "p", "o", "n", "s", "e", "\"", "]">>

BODY_ARRAY_EMPTY == <<"[", "]">>

BODY_NUMBER == <<"5">>

BODY_HTML == <<"<", "h", "t", "m", "l", ">">>

BODY_MODEL_MISSING == <<"m", "o", "d", "e", "l", " ", "'", "m", "'", " ", "n", "o", "t", " ", "f", "o", "u", "n", "d">>

BODY_MODEL_UPPER == <<"M", "o", "d", "e", "l", " ", "n", "o", "t", " ", "f", "o", "u", "n", "d">>

BODY_NOT_FOUND == <<"4", "0", "4", " ", "p", "a", "g", "e", " ", "n", "o", "t", " ", "f", "o", "u", "n", "d">>

\* a parsed JSON value: an object by its keys, a string by its characters, an
\* array by its elements
JsonValue(type, keys, str, items) == [type |-> type, keys |-> keys, str |-> str, items |-> items]

\* response.json() on the bodies the backend sends here
response_json(text) ==
    IF text = BODY_RESPONSE THEN Return(JsonValue("object", {RESPONSE}, EMPTY, {}))
    ELSE IF text = BODY_ERROR
    THEN Return(JsonValue("object", {<<"e", "r", "r", "o", "r">>}, EMPTY, {}))
    ELSE IF text = BODY_STRING_RESPONSE
    THEN Return(JsonValue("string", {}, Slice(text, 1, Len(text) - 1), {}))
    ELSE IF text = BODY_STRING_OK
    THEN Return(JsonValue("string", {}, Slice(text, 1, Len(text) - 1), {}))
    ELSE IF text = BODY_ARRAY_RESPONSE THEN Return(JsonValue("array", {}, EMPTY, {RESPONSE}))
    ELSE IF text = BODY_ARRAY_EMPTY THEN Return(JsonValue("array", {}, EMPTY, {}))
    ELSE IF text = BODY_NUMBER THEN Return(JsonValue("number", {}, EMPTY, {}))
    ELSE Raise("JSONDecodeError", Msg("Expecting value", None))

\* Python's `"response" in data`: a key of a dict, an element of a list, a
\* substring of a str, and TypeError for a number
response_in(data) ==
    IF data.type = "object" THEN Return(RESPONSE \in data.keys)
    ELSE IF data.type = "array" THEN Return(RESPONSE \in data.items)
    ELSE IF data.type = "string" THEN Return(Contains(data.str, RESPONSE))
    ELSE Raise("TypeError", Msg("argument is not iterable", None))

\* what requests.post does: "response" an HTTP response, otherwise the
\* exception raised; ConnectTimeout is both a ConnectionError and a Timeout
OllamaRequestKinds == {"response", "ConnectionError", "ConnectTimeout", "ReadTimeout", "InvalidURL"}

IsConnectionError(kind) == kind \in {"ConnectionError", "ConnectTimeout"}

IsTimeout(kind) == kind \in {"ConnectTimeout", "ReadTimeout"}

\* the body of the try block once requests.post returned a response
ollama_check_response(status_code, text) ==
    IF status_code = 404 /\ Contains(Lower(text), MODEL)
    THEN Raise("APIKeyInvalidError", Msg("Model not found", None))
    ELSE IF status_code # 200
    THEN Raise("OllamaAPIError", Msg("Ollama API returned status", text))
    ELSE LET data == response_json(text)
         IN  IF ~Returned(data)
             THEN Raise("OllamaAPIError", Msg("Invalid JSON response from Ollama API", None))
             ELSE IF ~Returned(response_in(data.val))
             THEN Raise("OllamaAPIError", Msg("Error validating Ollama configuration", None))
             ELSE IF ~response_in(data.val).val
             THEN Raise("OllamaAPIError", Msg("Invalid response format from Ollama API", None))
             ELSE Return(None)

\* validate_credentials reporting a missing model as a backend error
ollama_validate_credentials_404_backend(requests, url, model, kind, status_code, text) ==
    IF ~requests THEN Raise("OllamaAPIError", Msg("requests library is required", None))
    ELSE IF ~Truthy(url) THEN Raise("APIKeyInvalidError", Msg("Ollama API URL is required", None))
    ELSE IF ~Truthy(model) THEN Raise("APIKeyInvalidError", Msg("Ollama model is required", None))
    ELSE IF kind = "response"
    THEN IF status_code # 200
         THEN Raise("OllamaAPIError", Msg("Ollama API returned status", text))
         ELSE ollama_check_response(status_code, text)
    ELSE IF IsConnectionError(kind)
    THEN Raise("APIKeyInvalidError", Msg("Could not connect to Ollama", url))
    ELSE IF IsTimeout(kind)
    THEN Raise("OllamaAPIError", Msg("Request to Ollama timed out", None))
    ELSE Raise("OllamaAPIError", Msg("Error validating Ollama configuration", None))

\* requests is FALSE when the import of the library failed; the except
\* clauses are tried in order, ConnectionError before Timeout
ollama_validate_credentials(requests, url, model, kind, status_code, text) ==
    IF ~requests THEN Raise("OllamaAPIError", Msg("requests library is required", None))
    ELSE IF ~Truthy(url) THEN Raise("APIKeyInvalidError", Msg("Ollama API URL is required", None))
    ELSE IF ~Truthy(model) THEN Raise("APIKeyInvalidError", Msg("Ollama model is required", None))
    ELSE IF kind = "response" THEN ollama_check_response(status_code, text)
    ELSE IF IsConnectionError(kind)
    THEN Raise("APIKeyInvalidError", Msg("Could not connect to Ollama", url))
    ELSE IF IsTimeout(kind)
    THEN Raise("OllamaAPIError", Msg("Request to Ollama timed out", None))
    ELSE Raise("OllamaAPIError", Msg("Error validating Ollama configuration", None))

(***************************************************************************)
(* validate_credentials of both providers on the answers a backend gives   *)
(***************************************************************************)
MessagePrefixes == {EMPTY, <<"E", "r", "r", "o", "r", ":", " ">>, <<"4", "0", "1", " ">>}

MessageCores ==
    {EMPTY, AUTHENTICATION, UNAUTHORIZED,
     <<"A", "u", "t", "h", "e", "n", "t", "i", "c", "a", "t", "i", "o", "n">>,
     <<"A", "U", "T", "H", "E", "N", "T", "I", "C", "A", "T", "I", "O", "N">>,
     <<"U", "n", "a", "u", "t", "h", "o", "r", "i", "z", "e", "d">>,
     <<"a", "u", "t", "h", "e", "n", "t", "i", "c", "a", "t">>,
     <<"a", "u", "t", "h", "o", "r", "i", "z", "a", "t", "i", "o", "n">>,
     <<"t", "i", "m", "e", "o", "u", "t">>}

MessageSuffixes == {EMPTY, <<" ", "f", "a", "i", "l", "e", "d">>, <<"!">>}

ErrorMessages ==
    {pre \o core \o suf : pre \in MessagePrefixes, core \in MessageCores, suf \in MessageSuffixes}

StatusCodes == {200, 201, 404, 500}

ResponseBodies ==
    {EMPTY, BODY_RESPONSE, BODY_ERROR, BODY_STRING_RESPONSE, BODY_STRING_OK,
     BODY_ARRAY_RESPONSE, BODY_ARRAY_EMPTY, BODY_NUMBER, BODY_HTML,
     BODY_MODEL_MISSING, BODY_MODEL_UPPER, BODY_NOT_FOUND}

\* a pending validate_credentials call: the provider class, what the backend
\* will do, the text it sends, and for Ollama whether requests was imported,
\* the configured url and model and the status code
ValidateInput(class, kind, text, requests, url, model, status_code) ==
    [fn |-> "validate_credentials", class |-> class, kind |-> kind, text |-> text,
     requests |-> requests, url |-> url, model |-> model, status_code |-> status_code]

ValidateInputs ==
    {ValidateInput("OpenAIProvider", "error", m, TRUE, None, None, 0) : m \in ErrorMessages}
    \cup {ValidateInput("OpenAIProvider", kind, EMPTY, TRUE, None, None, 0) :
              kind \in OpenAIListingKinds \ {"error"}}
    \cup {ValidateInput("OllamaProvider", "response", text, requests, url, model, status_code) :
              text \in ResponseBodies, requests \in BOOLEAN, url \in {None, EMPTY, URL1},
              model \in {None, EMPTY, MODEL1}, status_code \in StatusCodes}
    \cup {ValidateInput("OllamaProvider", kind, EMPTY, requests, url, model, 0) :
              kind \in OllamaRequestKinds \ {"response"}, requests \in BOOLEAN,
              url \in {None, EMPTY, URL1}, model \in {None, EMPTY, MODEL1}}

InitValidate ==
    /\ kr = [key \in KrKeys |-> None]
    /\ krUp = TRUE
    /\ env = [v \in EnvVars |-> None]
    /\ file = NoFile
    /\ providers = InitialProviders
    /\ regLog = InitialProviders
    /\ input \in ValidateInputs
    /\ cache = NoCache
    /\ last = Op("init", None, Return(None))

OpenAIValidateCredentials ==
    /\ input.class = "OpenAIProvider"
    /\ last.op = "init"
    /\ last' = Op("openai_validate_credentials", input.text,
                  openai_validate_credentials(input.kind, input.text))
    /\ UNCHANGED <<kr, krUp, env, file, providers, regLog, input, cache>>

OllamaValidateCredentials ==
    /\ input.class = "OllamaProvider"
    /\ last.op = "init"
    /\ last' = Op("ollama_validate_credentials", input.text,
                  ollama_validate_credentials(input.requests, input.url, input.model,
                                              input.kind, input.status_code, input.text))
    /\ UNCHANGED <<kr, krUp, env, file, providers, regLog, input, cache>>

NextValidate ==
    \/ OpenAIValidateCredentials
    \/ OllamaValidateCredentials

SpecValidate == InitValidate /\ [][NextValidate]_vars

(***************************************************************************)
(* Credential validation                                                   *)
(***************************************************************************)
\* the message holds the hint somewhere, in any letter case
MentionsIgnoringCase(message, hint) ==
    \E a \in 0..(Len(message) - Len(hint)) :
        \A i \in 1..Len(hint) : LowerChar(message[a + i]) = hint[i]

\* C11: OpenAIProvider.validate_credentials raises APIKeyInvalidError when
\* the listing fails with a message that holds "authentication" or
\* "unauthorized" in any letter case, raises OpenAIAPIError when it fails
\* with any other message, and raises nothing for a non-empty listing.
C11_OpenAIValidationClasses ==
    last.op = "openai_validate_credentials" =>
        LET hinted == \/ MentionsIgnoringCase(input.text, AUTHENTICATION)
                      \/ MentionsIgnoringCase(input.text, UNAUTHORIZED)
        IN  /\ (input.kind = "error" /\ hinted) => Raised(last.ret, "APIKeyInvalidError")
            /\ (input.kind = "error" /\ ~hinted) => Raised(last.ret, "OpenAIAPIError")
            /\ input.kind = "models" => Returned(last.ret)

\* a failure whose message holds the hint with a capital letter was
\* classified as an invalid key
C11_Witness ==
    /\ last.op = "openai_validate_credentials"
    /\ input.kind = "error"
    /\ ~Contains(input.text, AUTHENTICATION)
    /\ ~Contains(input.text, UNAUTHORIZED)
    /\ Raised(last.ret, "APIKeyInvalidError")

\* a failure without a hint was classified as a backend error
C11_WitnessOther ==
    /\ last.op = "openai_validate_credentials"
    /\ input.kind = "error"
    /\ Len(input.text) > 0
    /\ Raised(last.ret, "OpenAIAPIError")

\* the call reached requests.post: the library, the url and the model exist
RequestMade == input.requests /\ Truthy(input.url) /\ Truthy(input.model)

\* the body is a JSON object that has a "response" field
HasResponseField ==
    /\ Returned(response_json(input.text))
    /\ response_json(input.text).val.type = "object"
    /\ RESPONSE \in response_json(input.text).val.keys

\* Python's `"response" in data` holds of the parsed body
ResponseInData ==
    /\ Returned(response_json(input.text))
    /\ Returned(response_in(response_json(input.text).val))
    /\ response_in(response_json(input.text).val).val

ModelMissing404 ==
    input.status_code = 404 /\ MentionsIgnoringCase(input.text, MODEL)

C12_WitnessString ==
    /\ last.op = "ollama_validate_credentials"
    /\ input.text = BODY_STRING_RESPONSE
    /\ Returned(last.ret)

(***************************************************************************)
(* ConfigManager objects sharing the one settings file                     *)
(***************************************************************************)
MODEL2 == <<"p", "h", "i", "3">>

CFG2 == [url |-> URL1, model |-> MODEL2]

SelectableProviders == {OPENAI, OLLAMA}

WrittenSections == {CFG1, CFG2}

\* the arguments of the ConfigManager call that ran last
ConfigCall(m, provider, section, setting, value, writable) ==
    [fn |-> "config_manager", m |-> m, provider |-> provider, section |-> section,
     setting |-> setting, value |-> value, writable |-> writable]

\* the step a ConfigManager method makes: r is its outcome, file and cache
ConfigStep(op, call, r) ==
    /\ file' = r.file
    /\ cache' = [cache EXCEPT ![call.m] = r.cache]
    /\ input' = call
    /\ last' = Op(op, call.provider, r.ret)
    /\ UNCHANGED <<kr, krUp, env, providers, regLog>>

\* ConfigManager(): a command object is built with a manager of its own
NewConfigManager ==
    \E m \in Managers :
        /\ cache[m].loaded
        /\ cache' = [cache EXCEPT ![m] = NotLoaded]
        /\ input' = ConfigCall(m, None, EmptyDict, "", None, TRUE)
        /\ last' = Op("ConfigManager", None, Return(None))
        /\ UNCHANGED <<kr, krUp, env, file, providers, regLog>>

CmGetProvider ==
    \E m \in Managers :
        ConfigStep("get_provider", ConfigCall(m, None, EmptyDict, "", None, TRUE),
                   get_provider(cache[m], file))

CmGetProviderConfig ==
    \E m \in Managers, provider \in SelectableProviders :
        ConfigStep("get_provider_config", ConfigCall(m, provider, EmptyDict, "", None, TRUE),
                   get_provider_section(cache[m], file, provider))

CmSetProvider ==
    \E m \in Managers, provider \in SelectableProviders, writable \in BOOLEAN :
        ConfigStep("set_provider", ConfigCall(m, provider, EmptyDict, "", None, writable),
                   set_provider(cache[m], file, provider, writable))

CmSetProviderConfig ==
    \E m \in Managers, section \in WrittenSections, writable \in BOOLEAN :
        ConfigStep("set_provider_config", ConfigCall(m, OLLAMA, section, "", None, writable),
                   set_provider_config(cache[m], file, OLLAMA, section, writable))

CmSetProviderSetting ==
    \E m \in Managers, writable \in BOOLEAN :
        ConfigStep("set_provider_setting",
                   ConfigCall(m, OLLAMA, EmptyDict, "model", MODEL2, writable),
                   set_provider_setting(cache[m], file, OLLAMA, "model", MODEL2, writable))

CmRemoveProviderConfig ==
    \E m \in Managers, writable \in BOOLEAN :
        ConfigStep("remove_provider_config", ConfigCall(m, OLLAMA, EmptyDict, "", None, writable),
                   remove_provider_config(cache[m], file, OLLAMA, writable))

NextConfig ==
    \/ NewConfigManager
    \/ CmGetProvider
    \/ CmGetProviderConfig
    \/ CmSetProvider
    \/ CmSetProviderConfig
    \/ CmSetProviderSetting
    \/ CmRemoveProviderConfig

SpecConfig == Init /\ [][NextConfig]_vars

(***************************************************************************)
(* The settings file read back                                             *)
(***************************************************************************)
ConfigWrites ==
    {"set_provider", "set_provider_config", "set_provider_setting", "remove_provider_config"}

\* every table of the two documents except t is the same in both
SameExceptTable(before, after, t) ==
    /\ DOMAIN after \ {t} = DOMAIN before \ {t}
    /\ \A x \in DOMAIN before \ {t} : after[x] = before[x]

\* every field of the two tables except key is the same in both
SameExceptField(before, after, key) ==
    /\ DOMAIN after \ {key} = DOMAIN before \ {key}
    /\ \A x \in DOMAIN before \ {key} : after[x] = before[x]

\* what the step wrote is what a fresh ConfigManager reads afterwards, and
\* everything else reads as it did before the step
ReadsBackWritten(op, call, before, after) ==
    LET table == IF op = "set_provider" THEN GENERAL ELSE call.provider
        old   == DictGet(before, table, EmptyDict)
        new   == DictGet(after, table, EmptyDict)
    IN  /\ SameExceptTable(before, after, table)
        /\ op = "set_provider" =>
               /\ DictGet(new, "provider", None) = call.provider
               /\ SameExceptField(old, new, "provider")
        /\ op = "set_provider_config" => new = call.section
        /\ op = "set_provider_setting" =>
               /\ DictGet(new, call.setting, None) = call.value
               /\ SameExceptField(old, new, call.setting)
        /\ op = "remove_provider_config" => table \notin DOMAIN after

\* C19: after a successful write through a ConfigManager, the only one in
\* use, a fresh ConfigManager reads back the written provider selection or
\* section, and every other section and field reads as before the write.
C19_WriteReadsBack ==
    [][ (/\ last'.op \in ConfigWrites
         /\ Returned(last'.ret)
         /\ \A n \in Managers \ {input'.m} : ~cache[n].loaded /\ ~cache'[n].loaded)
        => ReadsBackWritten(last'.op, input', load_config(file), load_config(file')) ]_vars

(***************************************************************************)
(* The user at the terminal                                                *)
(***************************************************************************)
\* Ctrl-C at a prompt: input() or getpass() raises KeyboardInterrupt
CTRL_C == <<"^C">>

YES == <<"Y">>

NO == <<"n">>

Answers == {CTRL_C, NO, YES}

\* response.strip().lower() in ['y', 'yes']
IsYes(answer) == Lower(Strip(answer)) \in {<<"y">>, <<"y", "e", "s">>}

KeyboardInterrupt == Raise("KeyboardInterrupt", Msg("", None))

(***************************************************************************)
(* providers/openai_provider.py: setup_interactive                         *)
(***************************************************************************)
OPENAI_KEY_PREFIX == <<"s", "k", "-">>

MIN_API_KEY_LENGTH == 20

\* api_key.startswith(prefix)
StartsWith(s, prefix) == Len(s) >= Len(prefix) /\ Slice(s, 0, Len(prefix)) = prefix

\* what the user types at the key prompt: nothing but blanks, a short key
\* without the prefix, and a well-formed key with blanks around it
BLANK_KEY == <<" ", " ">>

ODD_KEY == <<"k", "e", "y", "1">>

LONG_KEY == <<"s", "k", "-", "0", "1", "2", "3", "4", "5", "6", "7", "8", "9", "a", "b", "c", "d", "e", "f", "g">>

PADDED_LONG_KEY == <<" ">> \o LONG_KEY \o <<" ">>

EnteredKeys == {BLANK_KEY, ODD_KEY, PADDED_LONG_KEY}

\* what client.models.list() does when the key is tested
Listings ==
    {[kind |-> "models", message |-> EMPTY], [kind |-> "empty", message |-> EMPTY],
     [kind |-> "error", message |-> <<"4", "0", "1", " ", "U", "n", "a", "u", "t", "h", "o", "r", "i", "z", "e", "d">>],
     [kind |-> "error", message |-> <<"t", "i", "m", "e", "o", "u", "t">>]}

\* one pass through the loop body: the key typed, the answers to the two
\* warnings, the listing the backend gives and the answer to "Store the key
\* anyway?"
Round(key, short, prefix, listing, store) ==
    [key |-> key, short |-> short, prefix |-> prefix, listing |-> listing, store |-> store]

\* how a pass ends: "continue" (back to the key prompt), "abort" (Ctrl-C at
\* the named prompt) or "accept" (the key goes on to be stored); asked is the
\* set of answers the pass consumed
RoundEnd(end, prompt, key, validation, asked) ==
    [end |-> end, prompt |-> prompt, key |-> key, validation |-> validation, asked |-> asked]

\* the test of the key with the key kept whatever the answer to "Store the
\* key anyway?"
openai_setup_test_keeps_refused(api_key, r, asked) ==
    LET v == openai_validate_credentials(r.listing.kind, r.listing.message)
    IN  IF Returned(v) THEN RoundEnd("accept", "none", api_key, "passed", asked \cup {"listing"})
        ELSE IF r.store = CTRL_C
        THEN RoundEnd("abort", "store", None, v.exc, asked \cup {"listing", "store"})
        ELSE RoundEnd("accept", "none", api_key, v.exc, asked \cup {"listing", "store"})

\* the pass from the test of the key on
openai_setup_test(api_key, r, asked) ==
    LET v == openai_validate_credentials(r.listing.kind, r.listing.message)
    IN  IF Returned(v) THEN RoundEnd("accept", "none", api_key, "passed", asked \cup {"listing"})
        ELSE IF r.store = CTRL_C
        THEN RoundEnd("abort", "store", None, v.exc, asked \cup {"listing", "store"})
        ELSE IF ~IsYes(r.store)
        THEN RoundEnd("continue", "none", None, v.exc, asked \cup {"listing", "store"})
        ELSE RoundEnd("accept", "none", api_key, v.exc, asked \cup {"listing", "store"})

\* the pass from the prefix warning on
openai_setup_prefix(api_key, r, asked) ==
    IF StartsWith(api_key, OPENAI_KEY_PREFIX) THEN openai_setup_test(api_key, r, asked)
    ELSE IF r.prefix = CTRL_C THEN RoundEnd("abort", "prefix", None, "none", asked \cup {"prefix"})
    ELSE IF ~IsYes(r.prefix)
    THEN RoundEnd("continue", "none", None, "none", asked \cup {"prefix"})
    ELSE openai_setup_test(api_key, r, asked \cup {"prefix"})

\* the body of `while True` in setup_interactive
openai_setup_round(r) ==
    LET api_key == Strip(r.key)
    IN  IF r.key = CTRL_C THEN RoundEnd("abort", "key", None, "none", {})
        ELSE IF ~Truthy(api_key) THEN RoundEnd("continue", "none", None, "none", {})
        ELSE IF Len(api_key) >= MIN_API_KEY_LENGTH THEN openai_setup_prefix(api_key, r, {})
        ELSE IF r.short = CTRL_C THEN RoundEnd("abort", "short", None, "none", {"short"})
        ELSE IF ~IsYes(r.short) THEN RoundEnd("continue", "none", None, "none", {"short"})
        ELSE openai_setup_prefix(api_key, r, {"short"})

\* a pass in which every answer that is not consumed has its default
CanonicalRound(r) ==
    LET asked == openai_setup_round(r).asked
    IN  /\ "short" \notin asked => r.short = NO
        /\ "prefix" \notin asked => r.prefix = NO
        /\ "store" \notin asked => r.store = NO
        /\ "listing" \notin asked => r.listing.kind = "models"

Rounds ==
    {r \in {Round(key, short, prefix, listing, store) :
                key \in EnteredKeys \cup {CTRL_C}, short \in Answers, prefix \in Answers,
                listing \in Listings, store \in Answers} : CanonicalRound(r)}

ContinuingRounds == {r \in Rounds : openai_setup_round(r).end = "continue"}

TerminatingRounds == {r \in Rounds : openai_setup_round(r).end # "continue"}

MaxRounds == 2

\* the sessions of at most MaxRounds passes that leave the loop
Scripts ==
    UNION {{c \o <<t>> : c \in [1..(n - 1) -> ContinuingRounds], t \in TerminatingRounds} :
               n \in 1..MaxRounds}

\* how the loop was left: by Ctrl-C at a prompt or with a key to store, in
\* which pass, and what the test of the key said
Dialogue(end, prompt, key, validation, round) ==
    [end |-> end, prompt |-> prompt, key |-> key, validation |-> validation, round |-> round]

RECURSIVE openai_setup_loop(_, _)
\* `while True`: the passes of the session from pass i on
openai_setup_loop(rounds, i) ==
    IF i > Len(rounds) THEN Dialogue("pending", "none", None, "none", i)
    ELSE LET o == openai_setup_round(rounds[i])
         IN  IF o.end = "continue" THEN openai_setup_loop(rounds, i + 1)
             ELSE Dialogue(o.end, o.prompt, o.key, o.validation, i)

OpenAIDialogues == {openai_setup_loop(rounds, 1) : rounds \in Scripts}

RECURSIVE openai_setup_calls(_, _)
\* the requests validate_credentials sends to the backend from pass i on:
\* one in every pass that gets to the test of the key
openai_setup_calls(rounds, i) ==
    IF i > Len(rounds) THEN 0
    ELSE LET o == openai_setup_round(rounds[i])
         IN  (IF "listing" \in o.asked THEN 1 ELSE 0)
             + (IF o.end = "continue" THEN openai_setup_calls(rounds, i + 1) ELSE 0)

\* a provider object: the attributes its __init__ sets and their values
Instance(class, attrs, api_key, config, model) ==
    [class |-> class, attrs |-> attrs, api_key |-> api_key, config |-> config, model |-> model]

NoInstance == Instance("none", {}, None, EmptyDict, None)

\* OpenAIProvider.__init__
OpenAIInstance(api_key) ==
    Instance("OpenAIProvider", {"credentials", "api_key", "client"}, api_key, EmptyDict, None)

\* OllamaProvider.__init__
OllamaInstance(config) ==
    Instance("OllamaProvider", {"credentials", "config", "url", "model"}, None, config,
             DictGet(config, "model", None))

\* what setup_interactive hands back: its outcome, the secret store and the
\* settings file afterwards, whether the credentials were written, and the
\* provider object
Interactive(ret, k, f, stored, instance) ==
    [ret |-> ret, kr |-> k, file |-> f, stored |-> stored, instance |-> instance]

\* OpenAIProvider.setup_interactive for a session d: the key is written to
\* the secret store once the loop is left with a key; a failed write is only
\* reported
openai_setup_interactive(k, up, f, d) ==
    LET config == get_provider_config(OPENAI)
    IN  IF ~Returned(config) THEN Interactive(config, k, f, FALSE, NoInstance)
        ELSE IF d.end = "abort" THEN Interactive(KeyboardInterrupt, k, f, FALSE, NoInstance)
        ELSE LET w == keyring_set_password(k, up, config.val.keyring_service,
                                           config.val.keyring_username, d.key)
             IN  Interactive(Return("OpenAIProvider"), w[2], f, Returned(w[1]),
                             OpenAIInstance(d.key))

(***************************************************************************)
(* providers/ollama_provider.py: setup_interactive                         *)
(***************************************************************************)
\* a session at the Ollama prompts: the url and the model typed, what the
\* test request gives, and the answer to "Store the configuration anyway?"
OllamaDialogues ==
    {[url |-> url, model |-> MODEL1, kind |-> kind, store |-> store] :
         url \in {CTRL_C, URL1}, kind \in {"response", "ConnectionError"}, store \in Answers}

\* OllamaProvider.setup_interactive: the descriptor is looked up before the
\* first prompt; the settings are written through a ConfigManager of its own
ollama_setup_interactive(k, f, d, writable) ==
    LET config == get_provider_config(OLLAMA)
    IN  IF ~Returned(config) THEN Interactive(config, k, f, FALSE, NoInstance)
        ELSE IF d.url = CTRL_C \/ d.model = CTRL_C
        THEN Interactive(KeyboardInterrupt, k, f, FALSE, NoInstance)
        ELSE LET existing == cm_get_provider_config(f, OLLAMA)
                 url == IF Truthy(Strip(d.url)) THEN Strip(d.url)
                        ELSE DictGet(existing, "url", config.val.default_url)
                 model == IF Truthy(Strip(d.model)) THEN Strip(d.model)
                          ELSE DictGet(existing, "model", config.val.default_model)
                 ollama_config == [url |-> url, model |-> model]
                 v == ollama_validate_credentials(TRUE, url, model, d.kind, 200, BODY_RESPONSE)
             IN  IF ~Returned(v) /\ ~IsYes(d.store)
                 THEN Interactive(KeyboardInterrupt, k, f, FALSE, NoInstance)
                 ELSE LET w == cm_set_provider_config(f, OLLAMA, ollama_config, writable)
                      IN  Interactive(Return("OllamaProvider"), k, w[2], Returned(w[1]),
                                      OllamaInstance(ollama_config))

(***************************************************************************)
(* commands.py: SetupCommand                                               *)
(***************************************************************************)
\* str.isdigit for the answers typed here
IsDigit(s) == Len(s) > 0 /\ \A i \in 1..Len(s) : IndexIn(s[i], Digits) > 0

RECURSIVE ParseInt(_)
\* int(choice) of a string of digits 1..9
ParseInt(s) ==
    IF Len(s) = 0 THEN 0
    ELSE 10 * ParseInt(SubSeq(s, 1, Len(s) - 1)) + IndexIn(s[Len(s)], Digits)

\* SetupCommand._prompt_for_provider for one answer; an answer that is not
\* accepted is asked for again ("reprompt")
prompt_for_provider(P, answer) ==
    LET available_providers == get_available_providers(P)
        choice == Lower(Strip(answer))
    IN  IF answer = CTRL_C THEN KeyboardInterrupt
        ELSE IF ~Truthy(choice) THEN Return(DEFAULT_PROVIDER)
        ELSE IF IsDigit(choice)
        THEN IF 1 <= ParseInt(choice) /\ ParseInt(choice) <= Len(available_providers)
             THEN Return(available_providers[ParseInt(choice)])
             ELSE Raise("reprompt", Msg("Please enter a number", None))
        ELSE IF \E i \in 1..Len(available_providers) : available_providers[i] = choice
        THEN Return(choice)
        ELSE Raise("reprompt", Msg("Invalid choice", None))

\* SetupCommand._has_existing_config: the settings file for Ollama, the
\* secret store under the descriptor's namespace for the others
setup_has_existing_config(k, up, f, provider) ==
    IF Lower(provider) = OLLAMA THEN DictTruthy(cm_get_provider_config(f, OLLAMA))
    ELSE LET config == get_provider_config(provider)
         IN  IF ~Returned(config) THEN FALSE
             ELSE LET existing_key == keyring_get_password(k, up, config.val.keyring_service,
                                                           config.val.keyring_username)
                  IN  Returned(existing_key) /\ Truthy(existing_key.val)

\* the step of a ConfigManager call that changes nothing
NoWrite(c, f) == [ret |-> Return(None), file |-> f, cache |-> c]

\* the url and model entries of the provider object's config
UrlAndModel(config) == [key \in DOMAIN config \cap {"url", "model"} |-> config[key]]

\* _save_provider_settings writing the key next to the model
save_provider_settings_with_key(c, f, provider, instance, writable) ==
    IF Lower(provider) = OLLAMA
    THEN IF "config" \in instance.attrs /\ DictTruthy(UrlAndModel(instance.config))
         THEN set_provider_config(c, f, OLLAMA, UrlAndModel(instance.config), writable)
         ELSE NoWrite(c, f)
    ELSE IF Lower(provider) = OPENAI
    THEN set_provider_config(c, f, OPENAI,
                             [model |-> instance.model, api_key |-> instance.api_key], writable)
    ELSE NoWrite(c, f)

\* SetupCommand._save_provider_settings: url and model for Ollama; for
\* OpenAI the model, when the provider object has one
save_provider_settings(c, f, provider, instance, writable) ==
    IF Lower(provider) = OLLAMA
    THEN IF "config" \in instance.attrs /\ DictTruthy(UrlAndModel(instance.config))
         THEN set_provider_config(c, f, OLLAMA, UrlAndModel(instance.config), writable)
         ELSE NoWrite(c, f)
    ELSE IF Lower(provider) = OPENAI
    THEN IF "model" \in instance.attrs
         THEN set_provider_config(c, f, OPENAI, [model |-> instance.model], writable)
         ELSE NoWrite(c, f)
    ELSE NoWrite(c, f)

\* what a command leaves behind for the user and the shell: the exit status
\* ("uncaught" when an exception leaves execute), the prompt at which Ctrl-C
\* came, the messages printed, the error that ended it, and the facts of
\* the run the claims speak about
NoResult ==
    [exit |-> "0", interrupted |-> "none", declined |-> FALSE, asked |-> {},
     reports |-> {}, err |-> Return(None), provider |-> None, secret |-> None,
     validation |-> "none", stored |-> FALSE, attempts |-> {}, errors |-> {},
     stdout |-> None, copied |-> None, system_info |-> "none", calls |-> 0,
     keyring_line |-> None, env_line |-> None, ready |-> FALSE, round |-> 0,
     probe |-> "none"]

\* the state a command leaves and its result
Done(k, f, res) == [kr |-> k, file |-> f, res |-> res]

\* execute selecting the provider in the settings file before the dialogue
\* is over
setup_configure_select_first(k, up, f, P, provider, c, d, od, writable, asked) ==
    LET class == get_provider_class(P, provider).val
        it == IF class = "OpenAIProvider" THEN openai_setup_interactive(k, up, f, d)
              ELSE ollama_setup_interactive(k, f, od, writable)
        sp == set_provider(c, it.file, provider, writable)
        ss == save_provider_settings(sp.cache, sp.file, provider, it.instance, writable)
        res == [NoResult EXCEPT !.provider = provider, !.asked = asked]
    IN  IF Raised(it.ret, "KeyboardInterrupt")
        THEN Done(it.kr, sp.file,
                  [res EXCEPT !.exit = "1", !.err = it.ret, !.reports = {"Setup cancelled."},
                              !.interrupted = IF class = "OpenAIProvider" THEN d.prompt
                                              ELSE "ollama",
                              !.round = IF class = "OpenAIProvider" THEN d.round ELSE 1,
                              !.asked = asked \cup {"setup_interactive"}])
        ELSE IF ~Returned(it.ret)
        THEN Done(it.kr, it.file, [res EXCEPT !.exit = "uncaught", !.err = it.ret])
        ELSE LET res2 == [res EXCEPT !.asked = asked \cup {"setup_interactive"},
                                     !.round = IF class = "OpenAIProvider" THEN d.round ELSE 1,
                                     !.secret = it.instance.api_key,
                                     !.validation = IF class = "OpenAIProvider"
                                                    THEN d.validation ELSE od.kind,
                                     !.stored = it.stored]
             IN  IF ~Returned(sp.ret)
                 THEN Done(it.kr, sp.file, [res2 EXCEPT !.exit = "uncaught", !.err = sp.ret])
                 ELSE IF ~Returned(ss.ret)
                 THEN Done(it.kr, ss.file, [res2 EXCEPT !.exit = "uncaught", !.err = ss.ret])
                 ELSE Done(it.kr, ss.file, [res2 EXCEPT !.reports = {"setup_complete"}])

\* execute from the call of setup_interactive on
setup_configure(k, up, f, P, provider, c, d, od, writable, asked) ==
    LET class == get_provider_class(P, provider).val
        it == IF class = "OpenAIProvider" THEN openai_setup_interactive(k, up, f, d)
              ELSE ollama_setup_interactive(k, f, od, writable)
        sp == set_provider(c, it.file, provider, writable)
        ss == save_provider_settings(sp.cache, sp.file, provider, it.instance, writable)
        res == [NoResult EXCEPT !.provider = provider, !.asked = asked]
    IN  IF Raised(it.ret, "KeyboardInterrupt")
        THEN Done(it.kr, it.file,
                  [res EXCEPT !.exit = "1", !.err = it.ret, !.reports = {"Setup cancelled."},
                              !.interrupted = IF class = "OpenAIProvider" THEN d.prompt
                                              ELSE "ollama",
                              !.round = IF class = "OpenAIProvider" THEN d.round ELSE 1,
                              !.asked = asked \cup {"setup_interactive"}])
        ELSE IF ~Returned(it.ret)
        THEN Done(it.kr, it.file, [res EXCEPT !.exit = "uncaught", !.err = it.ret])
        ELSE LET res2 == [res EXCEPT !.asked = asked \cup {"setup_interactive"},
                                     !.round = IF class = "OpenAIProvider" THEN d.round ELSE 1,
                                     !.secret = it.instance.api_key,
                                     !.validation = IF class = "OpenAIProvider"
                                                    THEN d.validation ELSE od.kind,
                                     !.stored = it.stored]
             IN  IF ~Returned(sp.ret)
                 THEN Done(it.kr, sp.file, [res2 EXCEPT !.exit = "uncaught", !.err = sp.ret])
                 ELSE IF ~Returned(ss.ret)
                 THEN Done(it.kr, ss.file, [res2 EXCEPT !.exit = "uncaught", !.err = ss.ret])
                 ELSE Done(it.kr, ss.file, [res2 EXCEPT !.reports = {"setup_complete"}])

\* SetupCommand.execute(provider): choice answers the provider prompt,
\* update answers "Would you like to update it?", d and od are the sessions
\* at the provider's own prompts
setup_execute(k, up, f, P, provider_arg, choice, update, d, od, writable) ==
    LET chosen == IF provider_arg = None THEN prompt_for_provider(P, choice)
                  ELSE Return(provider_arg)
        asked0 == IF provider_arg = None THEN {"choice"} ELSE {}
    IN  IF Raised(chosen, "KeyboardInterrupt")
        THEN Done(k, f, [NoResult EXCEPT !.exit = "1", !.err = chosen, !.asked = asked0,
                                         !.interrupted = "choice",
                                         !.reports = {"Setup cancelled."}])
        ELSE IF ~Returned(chosen)
        THEN Done(k, f, [NoResult EXCEPT !.exit = "reprompt", !.asked = asked0])
        ELSE LET provider == chosen.val
                 class == get_provider_class(P, provider)
                 existing == setup_has_existing_config(k, up, f, provider)
                 c == IF Lower(provider) = OLLAMA THEN cached_load_config(NotLoaded, f)
                      ELSE NotLoaded
                 res == [NoResult EXCEPT !.provider = provider, !.asked = asked0]
             IN  IF ~Returned(class)
                 THEN Done(k, f, [res EXCEPT !.exit = "1", !.err = class,
                                             !.reports = {"unsupported"}])
                 ELSE IF existing /\ update = CTRL_C
                 THEN Done(k, f, [res EXCEPT !.exit = "1", !.err = KeyboardInterrupt,
                                             !.interrupted = "update",
                                             !.asked = asked0 \cup {"update"},
                                             !.reports = {"Setup cancelled."}])
                 ELSE IF existing /\ ~IsYes(update)
                 THEN Done(k, f, [res EXCEPT !.declined = TRUE,
                                             !.asked = asked0 \cup {"update"},
                                             !.reports = {"Setup cancelled."}])
                 ELSE setup_configure(k, up, f, P, provider, c, d, od, writable,
                                      IF existing THEN asked0 \cup {"update"} ELSE asked0)

(***************************************************************************)
(* commands.py: ResetCommand                                               *)
(***************************************************************************)
\* ResetCommand._has_existing_config: for Ollama the settings file or a
\* parsable environment value, for the others whatever get_provider_api_key
\* resolves (secret store, then environment)
reset_has_existing_config(k, up, e, f, provider) ==
    IF Lower(provider) = OLLAMA
    THEN IF DictTruthy(cm_get_provider_config(f, OLLAMA)) THEN TRUE
         ELSE LET env_config == get_provider_env_api_key(e, provider)
              IN  Truthy(env_config) /\ Returned(json_loads(env_config))
    ELSE LET existing_key == get_provider_api_key(k, up, e, provider)
         IN  Returned(existing_key) /\ Truthy(existing_key.val)

\* ResetCommand._remove_provider_config: <<outcome, secret store afterwards>>;
\* the descriptor is looked up first, a failing delete is passed over
reset_remove_provider_config(k, up, provider) ==
    LET config == get_provider_config(provider)
    IN  IF ~Returned(config) THEN <<config, k>>
        ELSE <<Return(None),
               keyring_delete_password(k, up, config.val.keyring_service,
                                       config.val.keyring_username)[2]>>

\* what the removals are recorded under
LEGACY == <<"legacy">>

SETTINGS_FILE == <<"file">>

\* the sweep so far: the secret store, the removals attempted, how many
\* succeeded, the providers whose removal failed, and the exception that
\* ended the sweep, if one did
Sweep(k, attempts, removed, errors, ret) ==
    [kr |-> k, attempts |-> attempts, removed |-> removed, errors |-> errors, ret |-> ret]

\* the removal of one provider's configuration with the exception passed on
reset_try_remove_uncaught(k, up, provider) ==
    LET r == reset_remove_provider_config(k, up, provider)
    IN  [kr |-> r[2], removed |-> Returned(r[1]), ret |-> r[1]]

\* the try/except around the removal of one provider's configuration: an
\* exception is recorded as an error and goes no further
reset_try_remove(k, up, provider) ==
    LET r == reset_remove_provider_config(k, up, provider)
    IN  [kr |-> r[2], removed |-> Returned(r[1]), ret |-> Return(None)]

RECURSIVE reset_sweep(_, _, _, _, _, _)
\* the loop over the providers from the i-th on; an exception that leaves
\* the loop body ends the loop
reset_sweep(k, up, e, f, available_providers, i) ==
    IF i > Len(available_providers) THEN Sweep(k, {}, 0, {}, Return(None))
    ELSE LET provider == available_providers[i]
         IN  IF ~reset_has_existing_config(k, up, e, f, provider)
             THEN reset_sweep(k, up, e, f, available_providers, i + 1)
             ELSE LET t == reset_try_remove(k, up, provider)
                      rest == reset_sweep(t.kr, up, e, f, available_providers, i + 1)
                  IN  IF ~Returned(t.ret) THEN Sweep(t.kr, {provider}, 0, {provider}, t.ret)
                      ELSE IF t.removed
                      THEN Sweep(rest.kr, rest.attempts \cup {provider}, rest.removed + 1,
                                 rest.errors, rest.ret)
                      ELSE Sweep(rest.kr, rest.attempts \cup {provider}, rest.removed,
                                 rest.errors \cup {provider}, rest.ret)

\* execute once the user has answered yes: the providers, the legacy key,
\* the settings file
reset_confirmed(k, up, e, f, P, deletable) ==
    LET sweep == reset_sweep(k, up, e, f, get_available_providers(P), 1)
        legacy == remove_api_key(sweep.kr, up)
        f2 == IF f.exists /\ deletable THEN reset_config(f) ELSE f
        res == [NoResult EXCEPT !.asked = {"confirm"}, !.errors = sweep.errors,
                                !.attempts = sweep.attempts]
    IN  IF ~Returned(sweep.ret)
        THEN Done(sweep.kr, f, [res EXCEPT !.exit = "uncaught", !.err = sweep.ret])
        ELSE Done(legacy[2], f2,
                  [res EXCEPT !.attempts = sweep.attempts \cup {LEGACY}
                                  \cup (IF f.exists THEN {SETTINGS_FILE} ELSE {}),
                              !.reports =
                                  (IF Returned(legacy[1]) THEN {"legacy_removed"} ELSE {})
                                  \cup (IF f.exists /\ deletable THEN {"file_removed"} ELSE {})
                                  \cup (IF f.exists /\ ~deletable THEN {"file_not_removed"}
                                        ELSE {})
                                  \cup (IF sweep.removed > 0 THEN {"reset_complete"} ELSE {})
                                  \cup (IF sweep.errors # {} THEN {"not_removed"} ELSE {})])

\* execute asking for the confirmation whatever it found
reset_execute_always_asks(k, up, e, f, P, answer, deletable) ==
    IF answer = CTRL_C
    THEN Done(k, f, [NoResult EXCEPT !.exit = "uncaught", !.err = KeyboardInterrupt,
                                     !.asked = {"confirm"}, !.interrupted = "confirm"])
    ELSE IF ~IsYes(answer)
    THEN Done(k, f, [NoResult EXCEPT !.declined = TRUE, !.asked = {"confirm"},
                                     !.reports = {"Reset cancelled."}])
    ELSE reset_confirmed(k, up, e, f, P, deletable)

\* ResetCommand.execute: answer is what the user types at "Are you sure?",
\* deletable whether the settings file can be unlinked
reset_execute(k, up, e, f, P, answer, deletable) ==
    LET available_providers == get_available_providers(P)
        has_configs == \E i \in 1..Len(available_providers) :
                           reset_has_existing_config(k, up, e, f, available_providers[i])
    IN  IF ~has_configs
        THEN Done(k, f, [NoResult EXCEPT !.reports = {"No provider configurations found."}])
        ELSE IF answer = CTRL_C
        THEN Done(k, f, [NoResult EXCEPT !.exit = "uncaught", !.err = KeyboardInterrupt,
                                         !.asked = {"confirm"}, !.interrupted = "confirm"])
        ELSE IF ~IsYes(answer)
        THEN Done(k, f, [NoResult EXCEPT !.declined = TRUE, !.asked = {"confirm"},
                                         !.reports = {"Reset cancelled."}])
        ELSE reset_confirmed(k, up, e, f, P, deletable)

(***************************************************************************)
(* commands.py: QueryCommand                                               *)
(***************************************************************************)
\* the except clauses of execute that print the exception as it is; every
\* other exception is printed as "Unexpected error"
QueryNamedErrors == {"APIKeyNotFoundError", "UnsupportedProviderError", "OpenAIAPIError"}

\* the except clauses of execute without sys.exit
query_failed_returns(res, err) ==
    [res EXCEPT !.err = err,
                !.reports = IF err.exc \in QueryNamedErrors THEN {"error"}
                            ELSE {"Unexpected error"}]

\* the except clauses of execute: the message on stderr, then sys.exit(1)
query_failed(res, err) ==
    [res EXCEPT !.exit = "1", !.err = err,
                !.reports = IF err.exc \in QueryNamedErrors THEN {"error"}
                            ELSE {"Unexpected error"}]

\* what subprocess.run(['uname', '-a']) does
UnameOutcomes == {"ok", "nonzero", "TimeoutExpired", "FileNotFoundError"}

\* _get_tool_version of a tool that shutil.which does not find
NOT_INSTALLED == <<"n", "o", "t", " ", "i", "n", "s", "t", "a", "l", "l", "e", "d">>

PYTHON3_LINE == <<"P", "y", "t", "h", "o", "n", " ", "3", ".", "9">>

\* the first line of stdout of a tool that exits with 0: Python 2 prints
\* its version on stderr, and the line is empty
ToolLines == {NOT_INSTALLED, PYTHON3_LINE, EMPTY}

\* s.split(' ', 1)[1]: what follows the first space; IndexError without one
SplitRest(s) ==
    IF \E i \in 1..Len(s) : s[i] = " "
    THEN LET i == CHOOSE i \in 1..Len(s) : s[i] = " " /\ \A j \in 1..(i - 1) : s[j] # " "
         IN  Return(SubSeq(s, i + 1, Len(s)))
    ELSE Raise("IndexError", Msg("list index out of range", None))

\* the Python entry of the tool list: python3, else python, with the word
\* "Python" cut off the version line
python_tool_info(python3_info, python_info) ==
    IF python3_info = NOT_INSTALLED
    THEN IF python_info # NOT_INSTALLED THEN SplitRest(python_info) ELSE Return(python_info)
    ELSE SplitRest(python3_info)

\* SystemUtils.get_system_info: SystemInfoError when uname fails; an
\* exception of the tool list is not caught
get_system_info(uname, python3_info, python_info) ==
    IF uname = "nonzero" THEN Raise("SystemInfoError", Msg("uname command failed", None))
    ELSE IF uname = "TimeoutExpired"
    THEN Raise("SystemInfoError", Msg("uname command timed out", None))
    ELSE IF uname = "FileNotFoundError"
    THEN Raise("SystemInfoError", Msg("Failed to get system info", None))
    ELSE IF ~Returned(python_tool_info(python3_info, python_info))
    THEN python_tool_info(python3_info, python_info)
    ELSE Return("uname")

\* the provider a query runs with: the flag, else the selection in the
\* settings file, else the default
query_provider(f, provider_arg) ==
    LET selected == get_provider(NotLoaded, f).ret.val
    IN  IF provider_arg # None THEN provider_arg
        ELSE IF Truthy(selected) THEN selected ELSE DEFAULT_PROVIDER

\* QueryCommand.execute: kind and text are what the backend answers,
\* probe what get_system_info does, clip_ok whether a clipboard tool works
query_execute(k, up, e, f, P, provider_arg, kind, text, copy_to_clipboard, probe, clip_ok) ==
    LET provider == query_provider(f, provider_arg)
        credentials == get_provider_credentials(k, up, e, f, provider)
        system_info == IF Returned(probe) THEN probe.val ELSE "Unknown system"
        ai_provider == create_provider(P, provider,
                                       IF Lower(provider) = OLLAMA THEN Dict(credentials.val)
                                       ELSE Str(credentials.val))
        command == generate_command(ai_provider.val.class, kind, text)
        res0 == [NoResult EXCEPT !.provider = provider]
        res == [res0 EXCEPT !.probe = IF Returned(probe) THEN "ok" ELSE probe.exc]
    IN  IF ~Returned(credentials) THEN Done(k, f, query_failed(res0, credentials))
        ELSE IF ~Returned(probe) /\ ~Raised(probe, "SystemInfoError")
        THEN Done(k, f, query_failed(res, probe))
        ELSE IF ~Returned(ai_provider)
        THEN Done(k, f, query_failed([res EXCEPT !.system_info = system_info], ai_provider))
        ELSE IF ~Returned(command)
        THEN Done(k, f, query_failed([res EXCEPT !.system_info = system_info, !.calls = 1],
                                     command))
        ELSE Done(k, f, [res EXCEPT !.system_info = system_info, !.calls = 1,
                                    !.stdout = command.val,
                                    !.copied = IF copy_to_clipboard /\ clip_ok THEN command.val
                                               ELSE None,
                                    !.reports = IF ~copy_to_clipboard THEN {}
                                                ELSE IF clip_ok THEN {"clipboard_success"}
                                                ELSE {"clipboard_failed"}])

(***************************************************************************)
(* commands.py: StatusCommand                                              *)
(***************************************************************************)
\* the masked key a status line shows, None when the line says there is none
MaskedOrNone(api_key) == IF Truthy(api_key) THEN get_masked_key(api_key) ELSE None

\* StatusCommand._is_provider_ready
is_provider_ready(k, up, e, f, provider) ==
    IF Lower(provider) = OLLAMA
    THEN IF DictTruthy(cm_get_provider_config(f, OLLAMA)) THEN TRUE
         ELSE LET env_config == get_provider_env_api_key(e, provider)
              IN  Truthy(env_config) /\ Returned(json_loads(env_config))
    ELSE Truthy(get_provider_api_key(k, up, e, provider).val)

\* StatusCommand.execute: the line headed "API Key (keyring)" shows what
\* get_provider_api_key resolves, the line headed "API Key (env var)" what
\* OPENAI_API_KEY holds; nothing is written
status_execute(k, up, e, f) ==
    LET selected == get_provider(NotLoaded, f).ret.val
        current_provider == IF Truthy(selected) THEN selected ELSE DEFAULT_PROVIDER
        stored_key == get_provider_api_key(k, up, e, current_provider).val
        res == [NoResult EXCEPT !.provider = current_provider,
                                !.ready = is_provider_ready(k, up, e, f, current_provider)]
    IN  IF Lower(current_provider) = OPENAI
        THEN Done(k, f, [res EXCEPT !.keyring_line = MaskedOrNone(stored_key),
                                    !.env_line = MaskedOrNone(get_env_api_key(e)),
                                    !.reports = {"keyring", "env var"}])
        ELSE IF Lower(current_provider) = OLLAMA
        THEN Done(k, f, [res EXCEPT !.reports =
                             IF DictTruthy(cm_get_provider_config(f, OLLAMA))
                             THEN {"Ollama configuration (config file)"}
                             ELSE {"No Ollama configuration found"}])
        ELSE Done(k, f, [res EXCEPT !.keyring_line = MaskedOrNone(stored_key),
                                    !.reports = {"API Key"}])

(***************************************************************************)
(* The four commands run one after another on the user's machine           *)
(***************************************************************************)
\* --provider as given on the command line; None when the flag is absent
SetupArgs == {None, OPENAI_MIXED, OLLAMA, TEST}

QueryArgs == {None, OPENAI, OPENAI_MIXED, OLLAMA, TEST}

\* what the user types at the provider prompt
ChoiceAnswers == {CTRL_C, EMPTY, <<"2">>}

\* what the probe of the system does on the machines considered
ProbeOutcomes ==
    {get_system_info(uname, python3_info, python_info) :
         uname \in UnameOutcomes, python3_info \in ToolLines, python_info \in ToolLines}

\* what the backend answers to a query
QueryAnswers ==
    {[kind |-> "command", text |-> <<"l", "s", "\n">>],
     [kind |-> "command", text |-> <<" ">>],
     [kind |-> "error", text |-> EMPTY]}

\* the step a command makes: r is what its execute leaves behind
CommandStep(fn, provider, r) ==
    /\ kr' = r.kr
    /\ file' = r.file
    /\ last' = Op(fn, provider, r.res)
    /\ UNCHANGED <<krUp, env, providers, regLog, input, cache>>

\* the user exports OPENAI_API_KEY or unsets it
ExportOpenAIKey ==
    \E val \in {None, EnvKey(1)} :
        /\ env' = [env EXCEPT ![OPENAI_API_KEY] = val]
        /\ last' = Op("setenv", OPENAI_API_KEY, Return(val))
        /\ UNCHANGED <<kr, krUp, file, providers, regLog, input, cache>>

\* ai setup [--provider ...]
RunSetup ==
    \E provider_arg \in SetupArgs :
        \E choice \in (IF provider_arg = None THEN ChoiceAnswers ELSE {NO}) :
            LET chosen == IF provider_arg = None THEN prompt_for_provider(providers, choice)
                          ELSE Return(provider_arg)
                proceeds == /\ Returned(chosen)
                            /\ Returned(get_provider_class(providers, chosen.val))
                existing == proceeds /\ setup_has_existing_config(kr, krUp, file, chosen.val)
            IN  \E update \in (IF existing THEN Answers ELSE {NO}) :
                    LET configures == proceeds /\ (existing => IsYes(update))
                        class == IF proceeds THEN get_provider_class(providers, chosen.val).val
                                 ELSE "none"
                        \* the dialogue is held only when setup_interactive gets to it
                        prompts == /\ configures
                                   /\ class = "OllamaProvider"
                                   /\ Returned(get_provider_config(OLLAMA))
                    IN  \E d \in (IF configures /\ class = "OpenAIProvider" THEN OpenAIDialogues
                                  ELSE {Dialogue("abort", "key", None, "none", 1)}),
                           od \in (IF prompts THEN OllamaDialogues
                                   ELSE {CHOOSE x \in OllamaDialogues : x.url = CTRL_C}) :
                        \E writable \in (IF configures /\ (d.end = "accept" \/ prompts)
                                         THEN BOOLEAN ELSE {TRUE}) :
                            \E r \in {setup_execute(kr, krUp, file, providers, provider_arg,
                                                    choice, update, d, od, writable)} :
                                /\ r.res.exit # "reprompt"
                                /\ CommandStep("setup", provider_arg, r)

\* ai status
RunStatus ==
    \E r \in {status_execute(kr, krUp, env, file)} : CommandStep("status", None, r)

\* ai reset
RunReset ==
    \E answer \in Answers, deletable \in BOOLEAN :
        \E r \in {reset_execute(kr, krUp, env, file, providers, answer, deletable)} :
            CommandStep("reset", None, r)

\* ai [--provider ...] [--copy] "question"
RunQuery ==
    \E provider_arg \in QueryArgs, copy_to_clipboard \in BOOLEAN :
        \* uname runs only with credentials, the backend is only asked with a
        \* description of the system, the clipboard only used for a command
        LET reached == Returned(get_provider_credentials(kr, krUp, env, file,
                                    query_provider(file, provider_arg)))
        IN  \E probe \in (IF reached THEN ProbeOutcomes ELSE {Return("uname")}) :
                LET asked == reached /\ (Returned(probe) \/ Raised(probe, "SystemInfoError"))
                IN  \E answer \in (IF asked THEN QueryAnswers
                                   ELSE {CHOOSE a \in QueryAnswers : a.kind = "error"}) :
                        \E clip_ok \in (IF asked /\ copy_to_clipboard /\ answer.kind = "command"
                                        THEN BOOLEAN ELSE {TRUE}) :
                            \E r \in {query_execute(kr, krUp, env, file, providers,
                                                    provider_arg, answer.kind, answer.text,
                                                    copy_to_clipboard, probe, clip_ok)} :
                                CommandStep("query", provider_arg, r)

\* setup run again and again on one machine
NextSetup ==
    \/ KeyringBackend
    \/ RunSetup

SpecSetup == Init /\ [][NextSetup]_vars

\* reset on a machine configured through the library and the shell
NextReset ==
    \/ KeyringBackend
    \/ StoreApiKey
    \/ StoreProviderApiKey
    \/ ExportOpenAIKey
    \/ SetProviderConfig
    \/ RunReset

SpecReset == Init /\ [][NextReset]_vars

\* the sessions at the prompts of setup_interactive: the passes of the
\* OpenAI loop, or the answers at the Ollama prompts
Sessions ==
    {[provider |-> OPENAI, rounds |-> rounds,
      ollama |-> CHOOSE x \in OllamaDialogues : x.url = CTRL_C] : rounds \in Scripts}
    \cup {[provider |-> OLLAMA, rounds |-> CHOOSE x \in Scripts : Len(x) = 1,
           ollama |-> od] : od \in OllamaDialogues}

\* one setup with the whole session at its prompts in view
InitSession ==
    /\ kr = [key \in KrKeys |-> None]
    /\ krUp \in BOOLEAN
    /\ env = [v \in EnvVars |-> None]
    /\ file = NoFile
    /\ providers = InitialProviders
    /\ regLog = InitialProviders
    /\ input \in Sessions
    /\ cache = NoCache
    /\ last = Op("init", None, Return(None))

\* ai setup --provider <name>, the user going through the session `input`
\* and answering yes when asked whether to update
RunSession ==
    \E writable \in BOOLEAN :
        \E r \in {setup_execute(kr, krUp, file, providers, input.provider, NO, YES,
                                openai_setup_loop(input.rounds, 1), input.ollama, writable)} :
            CommandStep("setup", input.provider, r)

NextSession == RunSession

SpecSession == InitSession /\ [][NextSession]_vars

\* queries and status reports on a machine configured through the library
\* and the shell
NextQuery ==
    \/ KeyringBackend
    \/ StoreProviderApiKey
    \/ ExportOpenAIKey
    \/ SetProviderConfig
    \/ RunStatus
    \/ RunQuery

SpecQuery == Init /\ [][NextQuery]_vars

\* the four commands in any order
NextCommands ==
    \/ KeyringBackend
    \/ RunSetup
    \/ RunStatus
    \/ RunReset
    \/ RunQuery

SpecCommands == Init /\ [][NextCommands]_vars

(***************************************************************************)
(* Claims about setup                                                      *)
(***************************************************************************)
\* the provider selection a fresh ConfigManager reads from the settings file
SelectedProvider == get_provider(NotLoaded, file).ret.val

\* the secret the secret store holds under a provider's namespace
SecretUnder(provider_name) ==
    kr[<<PROVIDER_CONFIG[provider_name].keyring_service,
         PROVIDER_CONFIG[provider_name].keyring_username>>]

\* C13: when Ctrl-C comes at a prompt of setup (the provider choice, the
\* update question, or a prompt of setup_interactive in any pass), setup
\* exits with status 1 and the secret store and the settings file are as
\* they were when setup started.
C13_AbortWritesNothing ==
    [][ (last'.op = "setup" /\ last'.ret.interrupted # "none")
        => /\ last'.ret.exit = "1"
           /\ kr' = kr
           /\ file' = file ]_vars

\* Ctrl-C at "Store the key anyway?" in the second pass of a setup that
\* updates an existing configuration
C13_Witness ==
    /\ last.op = "setup"
    /\ last.ret.interrupted = "store"
    /\ last.ret.round = 2
    /\ "update" \in last.ret.asked
    /\ file.exists

\* C14: when setup runs to completion with validation passing and the
\* secret-store write succeeding, the settings file selects the provider's
\* identity (its lowercase registry key) and the secret store holds the
\* entered secret under that provider's namespace.
C14_CompletedSetupPersists ==
    (/\ last.op = "setup"
     /\ "setup_complete" \in last.ret.reports
     /\ last.ret.validation = "passed"
     /\ last.ret.stored)
    => /\ SelectedProvider = Lower(last.ret.provider)
       /\ SecretUnder(Lower(last.ret.provider)) = last.ret.secret

(***************************************************************************)
(* Claims about reset                                                      *)
(***************************************************************************)
\* no provider has configuration in any source: no secret under a provider's
\* namespace, no environment variable, no provider section with content in
\* the file
NoConfigurationAnywhere ==
    /\ \A provider_name \in DOMAIN PROVIDER_CONFIG : ~Truthy(SecretUnder(provider_name))
    /\ \A v \in EnvVars : ~Truthy(env[v])
    /\ \A table \in DOMAIN load_config(file) \ {GENERAL} : ~DictTruthy(load_config(file)[table])

\* C15: with no configuration in any source, reset reports that none was
\* found, asks no confirmation, attempts no removal, leaves the secret store
\* and the settings file as they were and returns with exit status 0.
C15_NothingToReset ==
    [][ (last'.op = "reset" /\ NoConfigurationAnywhere)
        => /\ last'.ret.reports = {"No provider configurations found."}
           /\ last'.ret.asked = {}
           /\ last'.ret.attempts = {}
           /\ last'.ret.exit = "0"
           /\ kr' = kr
           /\ file' = file ]_vars

\* reset on a machine that holds nothing, the secret store being available
C15_Witness ==
    /\ last.op = "reset"
    /\ last.ret.reports = {"No provider configurations found."}
    /\ NoConfigurationAnywhere
    /\ krUp

\* C16: in a confirmed reset a removal that fails or finds nothing does not
\* end the sweep: every provider that has configuration is attempted, then
\* the legacy key, then the settings file if there is one, and the command
\* returns with exit status 0.
C16_SweepGoesOn ==
    [][ (/\ last'.op = "reset"
         /\ "confirm" \in last'.ret.asked
         /\ ~last'.ret.declined
         /\ last'.ret.interrupted = "none")
        => /\ last'.ret.exit = "0"
           /\ \A i \in 1..Len(get_available_providers(providers)) :
                  LET provider == get_available_providers(providers)[i]
                  IN  reset_has_existing_config(kr, krUp, env, file, provider)
                          => provider \in last'.ret.attempts
           /\ LEGACY \in last'.ret.attempts
           /\ file.exists => SETTINGS_FILE \in last'.ret.attempts ]_vars

\* the removal for Ollama failed and the sweep went on to OpenAI, the legacy
\* key and the settings file
C16_Witness ==
    /\ last.op = "reset"
    /\ OLLAMA \in last.ret.errors
    /\ {OPENAI, LEGACY, SETTINGS_FILE} \subseteq last.ret.attempts
    /\ last.ret.exit = "0"

\* C17: once reset has returned without the user declining, the settings
\* file does not exist and the secret store holds no secret, the legacy key
\* included.
C17_ResetLeavesNothing ==
    (/\ last.op = "reset"
     /\ last.ret.exit = "0"
     /\ ~last.ret.declined)
    => /\ ~file.exists
       /\ \A key \in KrKeys : ~Truthy(kr[key])

(***************************************************************************)
(* Claims about the commands together                                      *)
(***************************************************************************)
\* the secret keys: what the user typed at a key prompt and what the secret
\* store holds
SecretKeys ==
    {k \in {Strip(key) : key \in EnteredKeys} \cup {kr[key] : key \in KrKeys} : Truthy(k)}

\* the values written in the settings file
FileValues == UNION {{file.doc[table][key] : key \in DOMAIN file.doc[table]} :
                         table \in DOMAIN file.doc}

\* C18: whatever setups, status reports, queries and resets have run, no
\* value in the settings file is a secret key that the user entered or that
\* the secret store holds.
C18_NoSecretInFile == FileValues \cap SecretKeys = {}

\* a query answered after a setup that stored the entered key and wrote the
\* settings file
C18_Witness ==
    /\ last.op = "query"
    /\ Truthy(last.ret.stdout)
    /\ Truthy(SecretUnder(OPENAI))
    /\ SelectedProvider = OPENAI

\* C20: a query for a provider name that is not in the registry ends with
\* exit status 1 after reporting the unsupported-provider error, whose
\* message lists the available providers, whatever the secret store, the
\* settings file and the environment hold.
C20_UnregisteredProviderRejected ==
    (/\ last.op = "query"
     /\ last.name # None
     /\ ~Registered(providers, Lower(last.name)))
    => /\ last.ret.exit = "1"
       /\ Raised(last.ret.err, "UnsupportedProviderError")
       /\ last.ret.err.msg.detail = UnsupportedMessage(providers, Lower(last.name))

(***************************************************************************)
(* Claims about queries and status reports                                 *)
(***************************************************************************)
\* C21: when credential resolution, provider creation or generate_command
\* fails in a query, nothing is printed on standard output, nothing is
\* copied, and the exit status is 1; a command is printed or copied only
\* after generate_command returned it.
C21_FailedQueryPrintsNothing ==
    last.op = "query"
    => /\ ~Returned(last.ret.err)
              => /\ last.ret.stdout = None
                 /\ last.ret.copied = None
                 /\ last.ret.exit = "1"
       /\ (last.ret.stdout # None \/ last.ret.copied # None)
              => /\ Returned(last.ret.err)
                 /\ last.ret.calls = 1
                 /\ last.ret.copied \in {None, last.ret.stdout}

\* a query that the backend answered with an error or an empty result
C21_Witness ==
    /\ last.op = "query"
    /\ ~Returned(last.ret.err)
    /\ last.ret.calls = 1
    /\ last.ret.exit = "1"

\* C22: a failure of the system-information probe does not make a query
\* fail, the placeholder "Unknown system" goes to generate_command; a
\* failure of the clipboard copy comes after the command was printed and
\* the query returns normally.
C22_DegradesGracefully ==
    last.op = "query"
    => /\ last.ret.probe \notin {"none", "ok"}
              => /\ last.ret.system_info = "Unknown system"
                 /\ Registered(providers, Lower(last.ret.provider)) => last.ret.calls = 1
       /\ "clipboard_failed" \in last.ret.reports
              => /\ last.ret.stdout # None
                 /\ last.ret.exit = "0"

\* C23: for the secret-key provider the status report shows a key on its
\* secret-store line only when the secret store holds one under the
\* provider's namespace, and shows the environment variable on its own line.
C23_StatusPerSource ==
    (last.op = "status" /\ Lower(last.ret.provider) = OPENAI)
    => /\ last.ret.keyring_line # None => (krUp /\ Truthy(SecretUnder(OPENAI)))
       /\ last.ret.env_line = MaskedOrNone(get_env_api_key(env))

(***************************************************************************)
(* Claims about the session at the prompts of setup                        *)
(***************************************************************************)
\* the pass of the OpenAI session that left the loop
LastRound == input.rounds[Len(input.rounds)]

\* the test request of the session's last pass succeeded
SessionValidated ==
    IF input.provider = OPENAI
    THEN Returned(openai_validate_credentials(LastRound.listing.kind, LastRound.listing.message))
    ELSE Returned(ollama_validate_credentials(TRUE, Strip(input.ollama.url),
                                              Strip(input.ollama.model),
                                              input.ollama.kind, 200, BODY_RESPONSE))

\* the answer to "Store the key anyway?" or "Store the configuration anyway?"
SessionStoreAnswer ==
    IF input.provider = OPENAI THEN LastRound.store ELSE input.ollama.store

\* C24: setup writes to the secret store or the settings file only when the
\* test of the entered credentials succeeded or the user answered yes to the
\* store-anyway prompt, and the key written is the one of that pass: a key
\* the user refused to store is not written.
C24_WritesAfterConfirmation ==
    [][ (last'.op = "setup" /\ (kr' # kr \/ file' # file))
        => /\ SessionValidated \/ IsYes(SessionStoreAnswer)
           /\ \A key \in KrKeys : kr'[key] # kr[key] => kr'[key] = Strip(LastRound.key) ]_vars

\* in the first pass the test failed and the user refused to store the key;
\* the key of the second pass was stored after the user said yes
C24_Witness ==
    /\ last.op = "setup"
    /\ input.provider = OPENAI
    /\ Len(input.rounds) = 2
    /\ "store" \in openai_setup_round(input.rounds[1]).asked
    /\ Strip(input.rounds[1].key) # Strip(input.rounds[2].key)
    /\ last.ret.validation # "passed"
    /\ last.ret.stored
    /\ SecretUnder(OPENAI) = Strip(input.rounds[2].key)

\* C25: an invocation sends at most one request to the backend: setup does
\* not test a key a second time.
C25_OneNetworkCall ==
    (last.op = "setup" /\ input.provider = OPENAI) => openai_setup_calls(input.rounds, 1) <= 1

\* C26: OpenAIProvider.validate_credentials raises APIKeyInvalidError, not
\* OpenAIAPIError, when the listing request succeeds with an empty result.
C26_EmptyListingIsInvalidKey ==
    (last.op = "openai_validate_credentials" /\ input.kind = "empty")
        => Raised(last.ret, "APIKeyInvalidError")

(***************************************************************************)
(* Two ConfigManagers, and a save that fails                               *)
(***************************************************************************)
\* C27: when a ConfigManager has loaded the file, another one then writes a
\* provider section, and the first one then sets the provider selection,
\* the file still holds the section the other one wrote.
C27_NoLostWrite ==
    [][ (/\ last.op = "set_provider_config"
         /\ Returned(last.ret)
         /\ input'.m # input.m
         /\ cache[input'.m].loaded
         /\ last'.op = "set_provider"
         /\ Returned(last'.ret))
        => DictGet(load_config(file'), input.provider, EmptyDict) = input.section ]_vars

\* what get_provider and get_provider_config give on a manager with cache c
ManagerView(c, f) ==
    [provider |-> get_provider(c, f).ret,
     sections |-> [p \in SelectableProviders |-> get_provider_section(c, f, p).ret]]

\* C28: a write through a ConfigManager whose save_config fails leaves what
\* get_provider and get_provider_config return on that manager as it was
\* before the write.
C28_FailedSaveKeepsView ==
    [][ (last'.op \in ConfigWrites /\ ~Returned(last'.ret))
        => ManagerView(cache'[input'.m], file') = ManagerView(cache[input'.m], file) ]_vars

(***************************************************************************)
(* Letter case of the provider name                                        *)
(***************************************************************************)
\* C29: for a provider name in any letter case whose lowercase form has a
\* descriptor, get_provider_api_key gives what it gives for the lowercase
\* name: the same secret-store namespace and environment variable are read.
C29_CaseInsensitiveCredentials ==
    (last.op = "get_provider_api_key" /\ Lower(last.name) \in DOMAIN PROVIDER_CONFIG)
        => last.ret = get_provider_api_key(kr, krUp, env, Lower(last.name))

(***************************************************************************)
(* A query right after setup                                               *)
(***************************************************************************)
\* C30: when setup has reported that it is complete for a provider, a
\* query run next, without a provider flag and with no environment
\* variable set, selects that provider and finds its credentials.
C30_QueryAfterSetup ==
    [][ (/\ last.op = "setup"
         /\ "setup_complete" \in last.ret.reports
         /\ \A v \in EnvVars : env[v] = None
         /\ last'.op = "query"
         /\ last'.name = None)
        => /\ last'.ret.provider = last.ret.provider
           /\ ~Raised(last'.ret.err, "APIKeyNotFoundError") ]_vars

====
